---------------------------- MODULE Spec2Model ----------------------------
(***************************************************************************)
(* Verification model of the hyprcore dotfiles installers.                 *)
(*                                                                         *)
(* Two installers share one design and differ in details:                  *)
(*   "install"  src/install.py   (polling command runner, non-fatal steps) *)
(*   "HxA"      src/HxA.py       (blocking command runner, fatal steps)    *)
(*                                                                         *)
(* The module holds four state machines over one set of variables:         *)
(*   Spec          run_installation, the GLib idle queue and the main loop *)
(*   SpecRunner    run_user_command / run_polkit_command on one process    *)
(*   SpecFallback  install_yay, install_oh_my_zsh and install_packages     *)
(*   SpecWindow    the two buttons of the window and two worker threads    *)
(* Each specification leaves the variables it does not model at rest.      *)
(***************************************************************************)
EXTENDS Integers, Sequences, FiniteSets, TLC

(***************************************************************************)
(* Bounds of the model.                                                    *)
(***************************************************************************)
\* The model runs the first NumSteps entries of the step list
\* (install.py:790-806 lists 15 steps, HxA.py:631-648 lists 16).
NumSteps == 3

\* Number of runs the user starts (clicks answered with OK).
MaxRuns == 1

\* The timeout of a command, in ticks (install.py: timeout=300 and timeout=120
\* seconds by default).
Timeout == 3

\* time.sleep(0.1) of the polling loop, in ticks of 0.05 s.
PollInterval == 2

\* The clock of the runner model stops here.
MaxTime == 8

\* Lines one command writes to its pipes.
MaxLines == 2

\* Packages install_packages installs (install.py:268-280 lists 58) and the
\* size of a batch (batch_size = 10).
NumPackages == 3

BatchSize == 2

\* Threads the window starts (clicks that reach threading.Thread(...).start()),
\* and switches between two worker threads, in the model of the window.
MaxWorkers == 2

MaxSwitches == 1

\* Callbacks that wait in the idle queue when a worker thread takes a step,
\* in the model of the window.
MaxPending == 2

Variants == {"install", "HxA"}

(***************************************************************************)
(* State of the sequencer (DotfilesInstaller and the GLib main loop).      *)
(***************************************************************************)
VARIABLES
    variant,        \* which installer is running
    runs,           \* number of runs started so far
    is_installing,  \* self.is_installing
    total_steps,    \* self.total_steps
    current_step,   \* self.current_step
    wpc,            \* position of the worker thread in run_installation
    wi,             \* loop variable i of run_installation
    nwg,            \* the nwg-displays process: none, running, closed, failed
    idle,           \* GLib idle queue: callbacks scheduled by GLib.idle_add
    log_buffer,     \* Gtk.TextBuffer behind the log view
    progress_bar,   \* <<step, total>> last given to set_fraction / set_text
    status_label,   \* text of the status label
    install_button, \* sensitivity of the install button
    dialogs,        \* dialogs shown since the run was started
    emitted,        \* history: every callback the worker of this run scheduled
    published,      \* history: arguments of every update_progress call of the run
    results         \* history: what each step function of the run returned

runVars == <<variant, runs, is_installing, total_steps, current_step, wpc, wi, nwg,
             idle, log_buffer, progress_bar, status_label, install_button,
             dialogs, emitted, published, results>>

(***************************************************************************)
(* State of the command runner (one call of run_user_command or            *)
(* run_polkit_command, and the process it starts).                         *)
(***************************************************************************)
VARIABLES
    rfun,        \* the method called: run_user_command or run_polkit_command
    rpc,         \* position of the caller inside the method
    proc,        \* the child process: none, running, exited
    returncode,  \* exit status of the child once it has exited
    term,        \* SIGTERM: none, sent (delivered to the child), denied
    holder,      \* a background descendant of the command holds the pipes open
    now,         \* the clock, in ticks
    start_time,  \* start_time = time.time()
    wake,        \* when the current time.sleep(0.1) ends
    exit_time,   \* history: when the child exited
    out,         \* lines in the stdout pipe that have not been read
    err,         \* lines in the stderr pipe that have not been read
    nwritten,    \* number of lines the command has written
    rlog,        \* log_message calls of the method: <<what, line, is_error>>
    rresult,     \* what the method returned: none, True, False
    read_failed  \* history: a pipe.read() of the polling loop has raised

cmdVars == <<rfun, rpc, proc, returncode, term, holder, now, start_time, wake,
             exit_time, out, err, nwritten, rlog, rresult, read_failed>>

(***************************************************************************)
(* State of the steps of install.py that fall back to other strategies:    *)
(* install_yay, install_oh_my_zsh and install_packages.                    *)
(***************************************************************************)
VARIABLES
    funit,    \* the step function called
    fpc,      \* position of the caller inside the step function
    fb,       \* install_packages: number of the batch, i // batch_size + 1
    fp,       \* install_packages: the package of the batch retried next
    yay,      \* what check_yay_installed would return
    omz,      \* ~/.oh-my-zsh exists
    ftrace,   \* log_message calls and commands run, in order
    fresult   \* what the step function returned: none, True, False

fbVars == <<funit, fpc, fb, fp, yay, omz, ftrace, fresult>>

(***************************************************************************)
(* State of the window and of the threads of the process.                  *)
(***************************************************************************)
VARIABLES
    main_thread,  \* what the main thread executes: the GTK loop, or a worker's code
    alive,        \* running; quit (Gtk.main_quit was called); exited (process gone)
    parked,       \* the worker thread that is not scheduled: its wpc, wi and nwg
    switches,     \* number of switches between the two worker threads
    quit_at       \* history: the step in flight when the window was closed, or 0

winVars == <<main_thread, alive, parked, switches, quit_at>>

\* The window state that only the model of the window changes.
winOther == <<alive, parked, switches, quit_at>>

(***************************************************************************)
(* State of the update manager (scripts/updates.py).                       *)
(***************************************************************************)
VARIABLES
    um_checks,        \* per check_updates call: where its chain of threads is
    um_idle,          \* GLib idle queue of the update manager
    um_updates,       \* self.updates[pkg_type]["count"]
    um_progress_bar,  \* text of the progress bar
    um_buttons,       \* sensitivity of Update All and Update Selected
    um_log,           \* last line of the log view, which the status bar shows
    um_touched,       \* history: <<widget, thread>> of every widget mutation
    um_runs,          \* per run_updates thread: the part it is about to execute
    um_selected,      \* package types whose self.updates[t]["selected"] is not empty
    um_timeouts       \* pending GLib.timeout_add_seconds(2, on_refresh_clicked)

\* What the check threads and the callbacks of the checks leave alone.
updRunVars == <<um_runs, um_selected, um_timeouts>>

updVars == <<um_checks, um_idle, um_updates, um_progress_bar, um_buttons, um_log,
             um_touched, updRunVars>>

(***************************************************************************)
(* State of the prayer-time script (scripts/lock-salaat.py).               *)
(***************************************************************************)
VARIABLES
    now_minutes,        \* datetime.now(tz) as minutes since midnight
    today_response,     \* what the request for today's timings brings
    response_tomorrow,  \* what the request for tomorrow's timings brings
    timings,            \* data['data']['timings'] of a well-formed response
    spc,                \* position of the script: entry, returned
    sresult             \* what get_next_prayer_with_fallback returned

salVars == <<now_minutes, today_response, response_tomorrow, timings, spc, sresult>>

(***************************************************************************)
(* State of main(), the entry point of the installers.                     *)
(***************************************************************************)
VARIABLES
    euid,         \* os.geteuid()
    dots,         \* ~/dots exists
    answer,       \* what input("Create empty ~/dots directory? (y/N): ") brings
    mkdir_ok,     \* dots_dir.mkdir(parents=True, exist_ok=True) will not raise
    mpc,          \* position of main: start, check_dots, prompt, app, ui, exited
    exit_status,  \* exit status of the process once it has exited
    ui_created,   \* DotfilesInstaller() was constructed and app.run() called
    dots_missing  \* history: ~/dots did not exist when main started

entryVars == <<euid, dots, answer, mkdir_ok, mpc, exit_status, ui_created,
               dots_missing>>

\* The state outside the installer window: the two scripts and main().
scriptVars == <<updVars, salVars, entryVars>>

vars == <<runVars, cmdVars, fbVars, winVars, scriptVars>>

(***************************************************************************)
(* The step list.                                                          *)
(***************************************************************************)
\* Position of each step function in the list `steps`.
StepNames == <<"install_yay", "install_packages", "create_directories",
               "install_fonts", "clone_zsh_plugins", "install_oh_my_zsh",
               "setup_zsh_plugins", "create_symlinks", "setup_cursor_theme",
               "setup_sddm", "setup_grub", "setup_nct6687d", "start_swww",
               "setup_pywal", "cleanup", "install_flatpak_apps">>

\* Steps of install.py with a `return False`: install_yay, install_packages
\* and install_oh_my_zsh.  Every other step ends in `return True`.
InstallCanFail == {1, 2, 6}

\* Steps of HxA.py with a `return False`.
HxACanFail == {1, 2, 4, 5, 6, 9, 10, 11, 12, 14}

\* What a call of step i may do: return True, return False, or raise.
StepOutcomes(v, i) ==
    {"ok", "raise"} \cup
    (IF (v = "install" /\ i \in InstallCanFail) \/ (v = "HxA" /\ i \in HxACanFail)
     THEN {"fail"} ELSE {})

\* A failed step halts the run in HxA.py (`return`) and only warns in install.py.
Fatal(v) == v = "HxA"

(***************************************************************************)
(* Callbacks and log entries.                                              *)
(***************************************************************************)
\* log_message: one _append_log callback per call.  The timestamp is left
\* out; `what` names the message and `step` the step description in it.
LogCb(what, step, is_error) ==
    [cb |-> "_append_log", what |-> what, step |-> step, is_error |-> is_error]

\* update_progress: one _update_progress_ui callback per call.
ProgressCb(step, total, msg) ==
    [cb |-> "_update_progress_ui", step |-> step, total |-> total, message |-> msg]

SetInstallingCb(b) == [cb |-> "_set_installing_state", installing |-> b]

DialogCb(name) == [cb |-> name]

\* _show_error(message): `step` is the step description in the message, 0 when
\* the message is the text of an exception.
ErrorCb(step) == [cb |-> "_show_error", step |-> step]

\* a <= b for fractions <<numerator, denominator>> with positive denominators
FracLeq(a, b) == a[1] * b[2] <= b[1] * a[2]

FracIsOne(a) == a[1] = a[2]

\* Number of steps of the run that have returned True so far.
Completed(rs) == Cardinality({k \in 1..Len(rs) : rs[k] = "ok"})

(***************************************************************************)
(* Initial state: DotfilesInstaller.__init__ followed by create_ui.        *)
(***************************************************************************)
RunInit ==
    /\ variant \in Variants
    /\ runs = 0
    /\ is_installing = FALSE
    /\ total_steps = 0
    /\ current_step = 0
    /\ wpc = "none"
    /\ wi = 0
    /\ nwg = "none"
    /\ idle = <<>>
    /\ log_buffer = <<>>
    /\ progress_bar = <<0, 0>>
    /\ status_label = "Ready to install"
    /\ install_button = TRUE
    /\ dialogs = <<>>
    /\ emitted = <<>>
    /\ published = <<>>
    /\ results = <<>>

(***************************************************************************)
(* GLib.idle_add and the two publishing methods of the worker.             *)
(***************************************************************************)
\* Mutant of idle_add: the callbacks are put at the head of the queue.
idle_add_first(cbs) ==
    /\ idle' = cbs \o idle
    /\ emitted' = emitted \o cbs

\* The worker schedules the callbacks cbs, in order, and does not wait.
idle_add(cbs) ==
    /\ idle' = idle \o cbs
    /\ emitted' = emitted \o cbs

\* update_progress(step, total, message) as seen by the history.
update_progress(step, total) ==
    published' = Append(published,
                        [step |-> step, total |-> total,
                         completed |-> Completed(results)])

(***************************************************************************)
(* Main loop.                                                              *)
(***************************************************************************)
\* Mutant of thread_start: start_installation calls run_installation itself
\* and the main thread executes it.
run_installation_inline == main_thread' = "run_installation"

\* self.install_thread = threading.Thread(target=self.run_installation);
\* self.install_thread.daemon = True; self.install_thread.start(): the target
\* runs on a thread of its own and the main thread goes back to its loop.
thread_start == main_thread' = "loop"

\* start_installation: the click handler of the install button.  install.py
\* asks for confirmation after clearing the log; HxA.py starts at once.
\* The thread is created only when no earlier worker is still running: two
\* workers at once are outside this specification.
start_installation ==
    /\ main_thread = "loop"
    /\ install_button
    /\ wpc \in {"none", "done"}
    /\ ~is_installing
    /\ log_buffer' = <<>>
    /\ \E response \in (IF variant = "install" THEN {"OK", "CANCEL"} ELSE {"OK"}) :
         IF response = "OK"
         THEN /\ runs < MaxRuns
              /\ runs' = runs + 1
              /\ wpc' = "begin"
              /\ wi' = 0
              /\ nwg' = "none"
              /\ dialogs' = <<>>
              /\ emitted' = <<>>
              /\ published' = <<>>
              /\ results' = <<>>
              /\ thread_start
         ELSE UNCHANGED <<runs, wpc, wi, nwg, dialogs, emitted, published, results,
                          main_thread>>
    /\ UNCHANGED <<variant, is_installing, total_steps, current_step, idle,
                   progress_bar, status_label, install_button>>

\* _append_log(text, is_error)
_append_log(c) ==
    /\ log_buffer' = Append(log_buffer, [what |-> c.what, step |-> c.step,
                                         is_error |-> c.is_error])
    /\ UNCHANGED <<total_steps, current_step, progress_bar, status_label,
                   install_button, dialogs>>

\* _update_progress_ui(step, total, message)
_update_progress_ui(c) ==
    /\ current_step' = c.step
    /\ total_steps' = c.total
    /\ progress_bar' = IF c.total > 0 THEN <<c.step, c.total>> ELSE progress_bar
    /\ status_label' = c.message
    /\ UNCHANGED <<log_buffer, install_button, dialogs>>

\* _set_installing_state(installing)
_set_installing_state(c) ==
    /\ install_button' = ~c.installing
    /\ UNCHANGED <<total_steps, current_step, log_buffer, progress_bar,
                   status_label, dialogs>>

\* _show_error, _show_success_dialog, _show_nwg_displays_dialog
show_dialog(c) ==
    /\ dialogs' = Append(dialogs, c)
    /\ UNCHANGED <<total_steps, current_step, log_buffer, progress_bar,
                   status_label, install_button>>

\* One iteration of the main loop: the oldest idle callback runs.
MainLoop ==
    /\ main_thread = "loop"
    /\ idle # <<>>
    /\ LET c == Head(idle) IN
         /\ idle' = Tail(idle)
         /\ CASE c.cb = "_append_log" -> _append_log(c)
              [] c.cb = "_update_progress_ui" -> _update_progress_ui(c)
              [] c.cb = "_set_installing_state" -> _set_installing_state(c)
              [] OTHER -> show_dialog(c)
    /\ UNCHANGED <<variant, runs, is_installing, wpc, wi, nwg, emitted, published, results>>

(***************************************************************************)
(* Worker thread: run_installation.                                        *)
(***************************************************************************)
mainVars == <<log_buffer, progress_bar, status_label, install_button, dialogs>>

\* try: self.is_installing = True; GLib.idle_add(self._set_installing_state, True)
W_Begin ==
    /\ wpc = "begin"
    /\ is_installing' = TRUE
    /\ idle_add(<<SetInstallingCb(TRUE)>>)
    /\ wpc' = "init"
    /\ UNCHANGED <<variant, runs, total_steps, current_step, wi, nwg, published, results>>
    /\ UNCHANGED mainVars

\* steps = [...]; self.total_steps = len(steps); the for loop is entered
W_Init ==
    /\ wpc = "init"
    /\ total_steps' = NumSteps
    /\ wi' = 1
    /\ wpc' = IF NumSteps >= 1 THEN "publish" ELSE "launch"
    /\ UNCHANGED <<variant, runs, is_installing, current_step, nwg, idle, emitted,
                   published, results>>
    /\ UNCHANGED mainVars

\* Head of the loop body: self.update_progress(i, self.total_steps, description),
\* and in install.py self.log_message(f"Step {i}/{self.total_steps}: ...").
W_Publish ==
    /\ wpc = "publish"
    /\ update_progress(wi, total_steps)
    /\ idle_add(<<ProgressCb(wi, total_steps, StepNames[wi])>> \o
                (IF variant = "install"
                 THEN <<LogCb("step_header", wi, FALSE)>> ELSE <<>>))
    /\ wpc' = "call"
    /\ UNCHANGED <<variant, runs, is_installing, total_steps, current_step, wi, nwg, results>>
    /\ UNCHANGED mainVars

\* step_func() is entered: every step function opens with one log_message.
W_Call ==
    /\ wpc = "call"
    /\ idle_add(<<LogCb("step_body", wi, FALSE)>>)
    /\ wpc' = "return"
    /\ UNCHANGED <<variant, runs, is_installing, total_steps, current_step, wi, nwg,
                   published, results>>
    /\ UNCHANGED mainVars

\* Mutant of StepSucceeded: the loop does not advance, and the same step is
\* called again until as many calls were made as there are steps.
StepSucceededRepeats ==
    /\ idle_add(IF variant = "install" THEN <<LogCb("step_ok", wi, FALSE)>> ELSE <<>>)
    /\ wi' = wi
    /\ wpc' = IF Len(results) + 1 < NumSteps THEN "publish" ELSE "launch"

\* What run_installation does with a step that returned True.
StepSucceeded ==
    /\ idle_add(IF variant = "install" THEN <<LogCb("step_ok", wi, FALSE)>> ELSE <<>>)
    /\ wi' = wi + 1
    /\ wpc' = IF wi < NumSteps THEN "publish" ELSE "launch"

\* Mutant of StepFailed: the failure of a non-fatal step goes unreported.
StepFailedSilently ==
    IF Fatal(variant)
    THEN /\ idle_add(<<LogCb("step_failed", wi, TRUE), ErrorCb(wi)>>)
         /\ wi' = wi
         /\ wpc' = "finally"
    ELSE /\ idle_add(<<LogCb("step_ok", wi, FALSE)>>)
         /\ wi' = wi + 1
         /\ wpc' = IF wi < NumSteps THEN "publish" ELSE "launch"

\* Mutant of StepFailed: the `return` of a failed fatal step leaves
\* run_installation at once, without the finally clause.
StepFailedSkipsFinally ==
    IF Fatal(variant)
    THEN /\ idle_add(<<LogCb("step_failed", wi, TRUE), ErrorCb(wi)>>)
         /\ wi' = wi
         /\ wpc' = "done"
    ELSE /\ idle_add(<<LogCb("step_warning", wi, TRUE)>>)
         /\ wi' = wi + 1
         /\ wpc' = IF wi < NumSteps THEN "publish" ELSE "launch"

\* What run_installation does with a step that returned False: install.py logs
\* a warning and goes on, HxA.py logs the failure, schedules the error dialog
\* and returns.
StepFailed ==
    IF Fatal(variant)
    THEN /\ idle_add(<<LogCb("step_failed", wi, TRUE), ErrorCb(wi)>>)
         /\ wi' = wi
         /\ wpc' = "finally"
    ELSE /\ idle_add(<<LogCb("step_warning", wi, TRUE)>>)
         /\ wi' = wi + 1
         /\ wpc' = IF wi < NumSteps THEN "publish" ELSE "launch"

\* Mutant of StepRaised: the exception is logged as a warning and the loop
\* goes on with the next step.
StepRaisedAsWarning ==
    /\ idle_add(<<LogCb("step_warning", wi, TRUE)>>)
    /\ wi' = wi + 1
    /\ wpc' = IF wi < NumSteps THEN "publish" ELSE "launch"

\* Mutant of StepRaised: the exception is logged and shown, and the run goes
\* on to the code after the loop.
StepRaisedGoesOn ==
    /\ idle_add(<<LogCb("installation_error", 0, TRUE), ErrorCb(0)>>)
    /\ wi' = wi
    /\ wpc' = "launch"

\* except Exception as e: the error is logged and the error dialog scheduled.
StepRaised ==
    /\ idle_add(<<LogCb("installation_error", 0, TRUE), ErrorCb(0)>>)
    /\ wi' = wi
    /\ wpc' = "finally"

\* step_func() returns or raises, and the rest of the loop body runs.
W_Return ==
    /\ wpc = "return"
    /\ \E r \in StepOutcomes(variant, wi) :
         /\ results' = Append(results, r)
         /\ CASE r = "ok" -> StepSucceeded
              [] r = "fail" -> StepFailed
              [] OTHER -> StepRaised
    /\ UNCHANGED <<variant, runs, is_installing, total_steps, current_step, nwg, published>>
    /\ UNCHANGED mainVars

\* self.update_progress(self.total_steps + 1, self.total_steps + 2,
\*                      "Launching nwg-displays")
W_Launch ==
    /\ wpc = "launch"
    /\ update_progress(total_steps + 1, total_steps + 2)
    /\ idle_add(<<ProgressCb(total_steps + 1, total_steps + 2, "Launching nwg-displays")>>)
    /\ wpc' = "nwg_spawn"
    /\ UNCHANGED <<variant, runs, is_installing, total_steps, current_step, wi, nwg, results>>
    /\ UNCHANGED mainVars

\* launch_nwg_displays up to subprocess.Popen(["nwg-displays"]): the launch
\* either starts the process or raises.  A raise is logged; install.py then
\* returns True and HxA.py returns False, and run_installation ignores both.
W_NwgSpawn ==
    /\ wpc = "nwg_spawn"
    /\ \E started \in BOOLEAN :
         IF started
         THEN /\ nwg' = "running"
              /\ idle_add(<<LogCb("nwg_launching", 0, FALSE),
                            DialogCb("_show_nwg_displays_dialog")>> \o
                          (IF variant = "install"
                           THEN <<LogCb("nwg_starting", 0, FALSE)>>
                           ELSE <<LogCb("nwg_launched", 0, FALSE)>>))
              /\ wpc' = IF variant = "install" THEN "nwg_poll" ELSE "nwg_wait"
         ELSE /\ nwg' = "failed"
              /\ idle_add(<<LogCb("nwg_launching", 0, FALSE),
                            DialogCb("_show_nwg_displays_dialog")>> \o
                          (IF variant = "install"
                           THEN <<LogCb("nwg_starting", 0, FALSE),
                                  LogCb("nwg_failed", 0, TRUE),
                                  LogCb("nwg_manual", 0, FALSE)>>
                           ELSE <<LogCb("nwg_failed", 0, TRUE)>>))
              /\ wpc' = "complete"
    /\ UNCHANGED <<variant, runs, is_installing, total_steps, current_step, wi,
                   published, results>>
    /\ UNCHANGED mainVars

\* The nwg-displays process ends (the user closes its window, or it fails).
NwgExit ==
    /\ nwg = "running"
    /\ nwg' = "exited"
    /\ UNCHANGED <<variant, runs, is_installing, total_steps, current_step, wpc, wi,
                   idle, emitted, published, results>>
    /\ UNCHANGED mainVars

\* install.py only: time.sleep(2), then process.poll().
W_NwgPoll ==
    /\ wpc = "nwg_poll"
    /\ IF nwg = "running"
       THEN /\ idle_add(<<LogCb("nwg_running", 0, FALSE),
                          LogCb("nwg_close_hint", 0, FALSE)>>)
            /\ wpc' = "nwg_wait"
       ELSE /\ idle_add(<<LogCb("nwg_exited_immediately", 0, FALSE)>>)
            /\ wpc' = "complete"
    /\ UNCHANGED <<variant, runs, is_installing, total_steps, current_step, wi, nwg,
                   published, results>>
    /\ UNCHANGED mainVars

\* Mutant of W_NwgWait: the worker goes on without process.wait().
W_NwgNoWait ==
    /\ wpc = "nwg_wait"
    /\ idle_add(<<LogCb("nwg_closed", 0, FALSE)>>)
    /\ wpc' = "complete"
    /\ UNCHANGED <<variant, runs, is_installing, total_steps, current_step, wi, nwg,
                   published, results>>
    /\ UNCHANGED mainVars

\* process.wait() returns once the process has ended.
W_NwgWait ==
    /\ wpc = "nwg_wait"
    /\ nwg = "exited"
    /\ idle_add(<<LogCb("nwg_closed", 0, FALSE)>>)
    /\ wpc' = "complete"
    /\ UNCHANGED <<variant, runs, is_installing, total_steps, current_step, wi, nwg,
                   published, results>>
    /\ UNCHANGED mainVars

\* self.update_progress(self.total_steps + 2, self.total_steps + 2,
\* "Installation complete!"), the closing log lines and the success dialog.
W_Complete ==
    /\ wpc = "complete"
    /\ update_progress(total_steps + 2, total_steps + 2)
    /\ idle_add(<<ProgressCb(total_steps + 2, total_steps + 2, "Installation complete!"),
                  LogCb("complete", 0, FALSE)>> \o
                (IF variant = "install"
                 THEN <<LogCb("next_steps", 0, FALSE), LogCb("next_1", 0, FALSE),
                        LogCb("next_2", 0, FALSE), LogCb("next_3", 0, FALSE)>>
                 ELSE <<>>) \o
                <<DialogCb("_show_success_dialog")>>)
    /\ wpc' = "finally"
    /\ UNCHANGED <<variant, runs, is_installing, total_steps, current_step, wi, nwg, results>>
    /\ UNCHANGED mainVars

\* finally: self.is_installing = False;
\*          GLib.idle_add(self._set_installing_state, False)
W_Finally ==
    /\ wpc = "finally"
    /\ is_installing' = FALSE
    /\ idle_add(<<SetInstallingCb(FALSE)>>)
    /\ wpc' = "done"
    /\ UNCHANGED <<variant, runs, total_steps, current_step, wi, nwg, published, results>>
    /\ UNCHANGED mainVars

run_installation ==
    \/ W_Begin
    \/ W_Init
    \/ W_Publish
    \/ W_Call
    \/ W_Return
    \/ W_Launch
    \/ W_NwgSpawn
    \/ W_NwgPoll
    \/ W_NwgWait
    \/ W_Complete
    \/ W_Finally

(***************************************************************************)
(* Command runner: run_user_command and run_polkit_command.                *)
(*                                                                         *)
(* Statements take no time; the clock advances only while the caller is    *)
(* blocked in time.sleep, Popen.communicate or subprocess.run.  The child  *)
(* process writes, forks and exits on its own.                             *)
(***************************************************************************)
Runners == {"run_user_command", "run_polkit_command"}

RLog(what, lines, is_error) == [what |-> what, lines |-> lines, is_error |-> is_error]

\* One log entry per line of a chunk of output.
RECURSIVE LinesLogged(_, _, _)
LinesLogged(what, chunk, is_error) ==
    IF chunk = <<>> THEN <<>>
    ELSE <<RLog(what, <<Head(chunk)>>, is_error)>> \o
         LinesLogged(what, Tail(chunk), is_error)

CmdInit ==
    /\ rfun \in Runners
    /\ rpc = "entry"
    /\ proc = "none"
    /\ returncode = 0
    /\ term = "none"
    /\ holder = FALSE
    /\ now = 0
    /\ start_time = 0
    /\ wake = 0
    /\ exit_time = 0
    /\ out = <<>>
    /\ err = <<>>
    /\ nwritten = 0
    /\ rlog = <<>>
    /\ rresult = "none"
    /\ read_failed = FALSE

\* The pipes are at end of file: the child and every descendant that
\* inherited them have exited.
PipesClosed == proc = "exited" /\ ~holder

\* Mutant of CommandFailed: the except branch swallows the exception and
\* the method reports success.
CommandFailureSwallowed ==
    /\ rresult' = "True"
    /\ rpc' = "returned"

\* except Exception as e: self.log_message(f"Command failed: ...", is_error=True)
CommandFailed ==
    /\ rresult' = "False"
    /\ rpc' = "returned"

\* self.log_message("Running ...") and subprocess.Popen: the process starts,
\* or Popen raises and the method returns False at once.  install.py goes on
\* to its polling loop, HxA.py blocks in subprocess.run.
R_Spawn ==
    /\ rpc = "entry"
    /\ \E spawned \in BOOLEAN :
         IF spawned
         THEN /\ proc' = "running"
              /\ start_time' = now
              /\ rlog' = Append(rlog, RLog("running", <<>>, FALSE))
              /\ rpc' = IF variant = "install" THEN "check" ELSE "run"
              /\ UNCHANGED rresult
         ELSE /\ rlog' = rlog \o <<RLog("running", <<>>, FALSE),
                                   RLog("command_failed", <<>>, TRUE)>>
              /\ CommandFailed
              /\ UNCHANGED <<proc, start_time>>
    /\ UNCHANGED <<rfun, returncode, term, holder, now, wake, exit_time, out, err,
                   nwritten>>
    /\ UNCHANGED runVars

\* Popen.terminate(): no signal when the child was already reaped; otherwise
\* SIGTERM, which the kernel may refuse for a child that pkexec has moved to
\* another uid (the PermissionError is caught by the method's except).
TerminateOutcomes ==
    IF proc = "exited" THEN {"none"}
    ELSE IF rfun = "run_polkit_command" THEN {"sent", "denied"} ELSE {"sent"}

\* if time.time() - start_time > timeout: process.terminate(); log; return False
R_Check ==
    /\ rpc = "check"
    /\ IF now - start_time > Timeout
       THEN \E t \in TerminateOutcomes :
              /\ term' = t
              /\ rlog' = Append(rlog, IF t = "denied"
                                      THEN RLog("command_failed", <<>>, TRUE)
                                      ELSE RLog("timed_out", <<>>, TRUE))
              /\ rresult' = "False"
              /\ rpc' = "returned"
       ELSE /\ rpc' = "poll"
            /\ UNCHANGED <<term, rlog, rresult>>
    /\ UNCHANGED <<rfun, proc, returncode, holder, now, start_time, wake,
                   exit_time, out, err, nwritten>>
    /\ UNCHANGED runVars

\* if process.poll() is not None: break
R_Poll ==
    /\ rpc = "poll"
    /\ rpc' = IF proc = "exited" THEN "communicate" ELSE "read"
    /\ UNCHANGED <<rfun, proc, returncode, term, holder, now, start_time, wake,
                   exit_time, out, err, nwritten, rlog, rresult>>
    /\ UNCHANGED runVars

\* The log entry of a line read in the loop: run_polkit_command prefixes it.
LoopLine == IF rfun = "run_polkit_command" THEN "sudo_line" ELSE "line"

\* Mutant of R_Read: the reads are not guarded, and a read that raises ends
\* the method in its outer except branch.
R_ReadUnguarded ==
    /\ rpc = "read"
    /\ \E out_raises \in (IF out = <<>> THEN {FALSE} ELSE BOOLEAN),
          err_raises \in (IF err = <<>> THEN {FALSE} ELSE BOOLEAN) :
         /\ read_failed' = (read_failed \/ out_raises \/ err_raises)
         /\ IF out_raises \/ err_raises
            THEN /\ rlog' = Append(rlog, RLog("command_failed", <<>>, TRUE))
                 /\ CommandFailed
                 /\ UNCHANGED wake
            ELSE /\ rlog' = rlog \o LinesLogged(LoopLine, out, FALSE) \o
                                     LinesLogged(LoopLine, err, FALSE)
                 /\ wake' = now + PollInterval
                 /\ rpc' = "sleep"
                 /\ UNCHANGED rresult
    /\ out' = <<>>
    /\ err' = <<>>
    /\ UNCHANGED <<rfun, proc, returncode, term, holder, now, start_time,
                   exit_time, nwritten>>
    /\ UNCHANGED runVars

\* for pipe in [process.stdout, process.stderr]: output = pipe.read() ...
\* A read takes what the pipe holds and logs each line; a read that raises
\* loses its chunk (except: pass).  Then time.sleep(0.1) begins.
R_Read ==
    /\ rpc = "read"
    /\ \E out_raises \in (IF out = <<>> THEN {FALSE} ELSE BOOLEAN),
          err_raises \in (IF err = <<>> THEN {FALSE} ELSE BOOLEAN) :
         /\ rlog' = rlog \o
                    (IF out_raises THEN <<>> ELSE LinesLogged(LoopLine, out, FALSE)) \o
                    (IF err_raises THEN <<>> ELSE LinesLogged(LoopLine, err, FALSE))
         /\ read_failed' = (read_failed \/ out_raises \/ err_raises)
    /\ out' = <<>>
    /\ err' = <<>>
    /\ wake' = now + PollInterval
    /\ rpc' = "sleep"
    /\ UNCHANGED <<rfun, proc, returncode, term, holder, now, start_time,
                   exit_time, nwritten, rresult>>
    /\ UNCHANGED runVars

\* time.sleep(0.1) returns
R_Wake ==
    /\ rpc = "sleep"
    /\ now >= wake
    /\ rpc' = "check"
    /\ UNCHANGED <<rfun, proc, returncode, term, holder, now, start_time, wake,
                   exit_time, out, err, nwritten, rlog, rresult>>
    /\ UNCHANGED runVars

\* stdout, stderr = process.communicate(): returns at end of file of both
\* pipes.  run_polkit_command logs the rest of stdout; both log the rest of
\* stderr when the exit status is not 0.
R_Communicate ==
    /\ rpc = "communicate"
    /\ PipesClosed
    /\ rlog' = rlog \o
               (IF rfun = "run_polkit_command"
                THEN LinesLogged("line", out, FALSE) ELSE <<>>) \o
               (IF returncode # 0 THEN LinesLogged("error_line", err, TRUE)
                ELSE IF rfun = "run_polkit_command"
                     THEN <<RLog("success", <<>>, FALSE)>> ELSE <<>>)
    /\ rresult' = IF returncode # 0 THEN "False" ELSE "True"
    /\ out' = <<>>
    /\ err' = <<>>
    /\ rpc' = "returned"
    /\ UNCHANGED <<rfun, proc, returncode, term, holder, now, start_time, wake,
                   exit_time, nwritten>>
    /\ UNCHANGED runVars

\* HxA.py: subprocess.run(..., capture_output=True) returns at end of file of
\* both pipes; the whole stderr is one ERROR entry, and run_user_command logs
\* the whole stdout as one entry.
R_Run ==
    /\ rpc = "run"
    /\ PipesClosed
    /\ rlog' = rlog \o
               (IF returncode # 0 THEN <<RLog("error_output", err, TRUE)>>
                ELSE IF rfun = "run_polkit_command"
                     THEN <<RLog("success", <<>>, FALSE)>>
                     ELSE IF out # <<>> THEN <<RLog("output", out, FALSE)>>
                          ELSE <<>>)
    /\ rresult' = IF returncode # 0 THEN "False" ELSE "True"
    /\ out' = <<>>
    /\ err' = <<>>
    /\ rpc' = "returned"
    /\ UNCHANGED <<rfun, proc, returncode, term, holder, now, start_time, wake,
                   exit_time, nwritten>>
    /\ UNCHANGED runVars

\* The caller is blocked: asleep, or waiting for the pipes to close.
Blocked ==
    \/ rpc = "sleep" /\ now < wake
    \/ rpc \in {"communicate", "run"} /\ ~PipesClosed

\* Time passes.
Tick ==
    /\ Blocked
    /\ now < MaxTime
    /\ now' = now + 1
    /\ UNCHANGED <<rfun, rpc, proc, returncode, term, holder, start_time, wake,
                   exit_time, out, err, nwritten, rlog, rresult>>
    /\ UNCHANGED runVars

\* The command writes a line to stdout or to stderr: line n of the command
\* is <<stream, n>>.
ProcWrite ==
    /\ proc = "running"
    /\ nwritten < MaxLines
    /\ nwritten' = nwritten + 1
    /\ \/ out' = Append(out, <<"stdout", nwritten + 1>>) /\ UNCHANGED err
       \/ err' = Append(err, <<"stderr", nwritten + 1>>) /\ UNCHANGED out
    /\ UNCHANGED <<rfun, rpc, returncode, proc, term, holder, now, start_time,
                   wake, exit_time, rlog, rresult>>
    /\ UNCHANGED runVars

\* The command starts a background descendant ("... &") that inherits the pipes.
ProcFork ==
    /\ proc = "running"
    /\ ~holder
    /\ holder' = TRUE
    /\ UNCHANGED <<rfun, rpc, proc, returncode, term, now, start_time, wake,
                   exit_time, out, err, nwritten, rlog, rresult>>
    /\ UNCHANGED runVars

\* The background descendant exits.
HolderExit ==
    /\ holder
    /\ holder' = FALSE
    /\ UNCHANGED <<rfun, rpc, proc, returncode, term, now, start_time, wake,
                   exit_time, out, err, nwritten, rlog, rresult>>
    /\ UNCHANGED runVars

\* The child exits, with status 0 or not (a child killed by SIGTERM among them).
ProcExit ==
    /\ proc = "running"
    /\ \E code \in {0, 1} : returncode' = code
    /\ proc' = "exited"
    /\ exit_time' = now
    /\ UNCHANGED <<rfun, rpc, term, holder, now, start_time, wake, out, err,
                   nwritten, rlog, rresult>>
    /\ UNCHANGED runVars

(***************************************************************************)
(* Steps with fallback strategies (install.py).                            *)
(*                                                                         *)
(* A command is one call of run_user_command or run_polkit_command; it     *)
(* returns True or False (SpecRunner reaches both).  `unit` names the work *)
(* the command belongs to and `strategy` the strategy of that unit: 0 is   *)
(* the primary, 1, 2, ... the alternates in the order the code tries them. *)
(***************************************************************************)
FallbackSteps == {"install_yay", "install_oh_my_zsh", "install_packages"}

FLog(what, arg, is_error) ==
    [ev |-> "log", what |-> what, arg |-> arg, is_error |-> is_error,
     ok |-> TRUE, unit |-> <<"", 0>>, strategy |-> 0, denied |-> FALSE]

\* A command run as the user: run_user_command returned ok.
FCmd(what, arg, unit, strategy, ok) ==
    [ev |-> "cmd", what |-> what, arg |-> arg, is_error |-> FALSE,
     ok |-> ok, unit |-> unit, strategy |-> strategy, denied |-> FALSE]

\* How a privileged command ends: it succeeds, it fails, or the user fails or
\* dismisses the authentication (pkexec then exits with status 127 or 126).
PolkitOutcomes == {"ok", "fail", "denied"}

\* What run_polkit_command returns: `if process.returncode != 0: return False`,
\* whatever the status was.
PolkitReturn(r) == r = "ok"

\* A command run through run_polkit_command (or sudo) that ended in r.
FPriv(what, arg, unit, strategy, r) ==
    [ev |-> "cmd", what |-> what, arg |-> arg, is_error |-> FALSE,
     ok |-> PolkitReturn(r), unit |-> unit, strategy |-> strategy,
     denied |-> (r = "denied")]

\* (len(packages) - 1) // batch_size + 1
NumBatches == (NumPackages - 1) \div BatchSize + 1

\* batch = packages[i:i + batch_size], for batch number b = i // batch_size + 1
FirstOfBatch(b) == (b - 1) * BatchSize + 1

LastOfBatch(b) == IF b * BatchSize < NumPackages THEN b * BatchSize ELSE NumPackages

Batch(b) == FirstOfBatch(b)..LastOfBatch(b)

\* The work a command belongs to: a batch of install_packages, or a named
\* piece of work of another step.
BatchUnit(b) == <<"batch", b>>

Unit(name) == <<name, 0>>

FbInit ==
    /\ funit \in FallbackSteps
    /\ fpc = "start"
    /\ fb = 0
    /\ fp = 0
    /\ yay \in BOOLEAN
    /\ omz \in BOOLEAN
    /\ ftrace = <<>>
    /\ fresult = "none"

\* return value of the step function
FReturn(value) ==
    /\ fresult' = value
    /\ fpc' = "done"

(*************************** install_yay *********************************)
\* Up to the first command: yay is found and the step returns True, or the
\* build dependencies are installed; a failure there returns False.
Y_Start ==
    /\ funit = "install_yay" /\ fpc = "start"
    /\ IF yay
       THEN /\ ftrace' = ftrace \o <<FLog("checking_yay", 0, FALSE),
                                     FLog("yay_already_installed", 0, FALSE)>>
            /\ FReturn("True")
       ELSE \E r \in PolkitOutcomes :
              /\ ftrace' = ftrace \o
                           <<FLog("checking_yay", 0, FALSE),
                             FLog("installing_yay", 0, FALSE),
                             FLog("installing_build_dependencies", 0, FALSE),
                             FPriv("Install build dependencies", 0, Unit("deps"), 0, r)>>
              /\ IF PolkitReturn(r) THEN fpc' = "clone" /\ UNCHANGED fresult
                       ELSE FReturn("False")
    /\ UNCHANGED <<funit, fb, fp, yay, omz>>

\* git clone of the AUR repository, as the user.
Y_Clone ==
    /\ funit = "install_yay" /\ fpc = "clone"
    /\ \E ok \in BOOLEAN :
         /\ ftrace' = ftrace \o <<FLog("cloning_yay", 0, FALSE),
                                  FCmd("Clone yay", 0, Unit("get_yay"), 0, ok)>>
         /\ fpc' = IF ok THEN "build" ELSE "download"
    /\ UNCHANGED <<funit, fb, fp, yay, omz, fresult>>

\* The clone failed: the pre-built binary is downloaded; then chmod, whose
\* result is not looked at, and return True without a check.
Y_Download ==
    /\ funit = "install_yay" /\ fpc = "download"
    /\ \E r \in PolkitOutcomes :
         IF PolkitReturn(r)
         THEN \E chmod_r \in PolkitOutcomes, found \in BOOLEAN :
                /\ ftrace' = ftrace \o
                             <<FLog("trying_alternative", 0, FALSE),
                               FPriv("Download yay binary", 0, Unit("get_yay"), 1, r),
                               FPriv("Make yay executable", 0, Unit("chmod"), 0, chmod_r),
                               FLog("yay_installed_via_binary", 0, FALSE)>>
                /\ yay' = found
                /\ FReturn("True")
         ELSE /\ ftrace' = ftrace \o
                           <<FLog("trying_alternative", 0, FALSE),
                             FPriv("Download yay binary", 0, Unit("get_yay"), 1, r)>>
              /\ UNCHANGED yay
              /\ FReturn("False")
    /\ UNCHANGED <<funit, fb, fp, omz>>

\* makepkg -si --noconfirm through pkexec.
Y_Build ==
    /\ funit = "install_yay" /\ fpc = "build"
    /\ \E r \in PolkitOutcomes, found \in BOOLEAN :
         /\ ftrace' = ftrace \o <<FLog("building_yay", 0, FALSE),
                                  FPriv("Build and install yay", 0, Unit("build"), 0, r)>>
         /\ yay' = (PolkitReturn(r) /\ found)
         /\ fpc' = IF PolkitReturn(r) THEN "verify" ELSE "sudo_build"
    /\ UNCHANGED <<funit, fb, fp, omz, fresult>>

\* The build failed: makepkg -si through sudo, with Popen and communicate.
Y_SudoBuild ==
    /\ funit = "install_yay" /\ fpc = "sudo_build"
    /\ \E r \in PolkitOutcomes, found \in BOOLEAN :
         IF r = "ok"
         THEN /\ ftrace' = ftrace \o <<FLog("trying_makepkg_directly", 0, FALSE),
                                       FPriv("sudo makepkg", 0, Unit("build"), 1, r)>>
              /\ yay' = found
              /\ fpc' = "verify"
              /\ UNCHANGED fresult
         ELSE /\ ftrace' = ftrace \o <<FLog("trying_makepkg_directly", 0, FALSE),
                                       FPriv("sudo makepkg", 0, Unit("build"), 1, r),
                                       FLog("failed_to_install_yay", 0, TRUE)>>
              /\ UNCHANGED yay
              /\ FReturn("False")
    /\ UNCHANGED <<funit, fb, fp, omz>>

\* Verify installation: check_yay_installed decides the return value.
Y_Verify ==
    /\ funit = "install_yay" /\ fpc = "verify"
    /\ IF yay
       THEN /\ ftrace' = Append(ftrace, FLog("yay_installed", 0, FALSE))
            /\ FReturn("True")
       ELSE /\ ftrace' = Append(ftrace, FLog("yay_may_have_failed", 0, TRUE))
            /\ FReturn("False")
    /\ UNCHANGED <<funit, fb, fp, yay, omz>>

(************************* install_oh_my_zsh *****************************)
\* ~/.oh-my-zsh exists and the step returns True, or the install script runs.
Z_Start ==
    /\ funit = "install_oh_my_zsh" /\ fpc = "start"
    /\ IF omz
       THEN /\ ftrace' = ftrace \o <<FLog("installing_omz", 0, FALSE),
                                     FLog("omz_already_installed", 0, FALSE)>>
            /\ FReturn("True")
            /\ UNCHANGED omz
       ELSE \E ok \in BOOLEAN :
              /\ ftrace' = ftrace \o <<FLog("installing_omz", 0, FALSE),
                                       FCmd("Install oh-my-zsh", 0, Unit("omz"), 0, ok)>>
              /\ omz' = ok
              /\ fpc' = IF ok THEN "chsh" ELSE "omz_clone"
              /\ UNCHANGED fresult
    /\ UNCHANGED <<funit, fb, fp, yay>>

\* The script failed: git clone of oh-my-zsh; a failure returns False.
Z_Clone ==
    /\ funit = "install_oh_my_zsh" /\ fpc = "omz_clone"
    /\ \E ok \in BOOLEAN :
         /\ ftrace' = ftrace \o <<FLog("trying_alternative_omz", 0, FALSE),
                                  FCmd("Clone oh-my-zsh", 0, Unit("omz"), 1, ok)>>
         /\ omz' = ok
         /\ IF ok THEN fpc' = "omz_cp" /\ UNCHANGED fresult
                  ELSE FReturn("False")
    /\ UNCHANGED <<funit, fb, fp, yay>>

\* ... and the copy of the zshrc template; a failure returns False.
Z_Copy ==
    /\ funit = "install_oh_my_zsh" /\ fpc = "omz_cp"
    /\ \E ok \in BOOLEAN :
         /\ ftrace' = Append(ftrace, FCmd("Copy zshrc template", 0, Unit("omz"), 1, ok))
         /\ IF ok THEN fpc' = "chsh" /\ UNCHANGED fresult
                  ELSE FReturn("False")
    /\ UNCHANGED <<funit, fb, fp, yay, omz>>

\* Change shell to zsh when zsh is found; a failure is only logged.
Z_Chsh ==
    /\ funit = "install_oh_my_zsh" /\ fpc = "chsh"
    /\ \E zsh_path \in BOOLEAN, r \in PolkitOutcomes :
         ftrace' = ftrace \o
                   (IF ~zsh_path THEN <<>>
                    ELSE <<FPriv("Change shell to zsh", 0, Unit("chsh"), 0, r)>> \o
                         (IF PolkitReturn(r) THEN <<>>
                          ELSE <<FLog("failed_to_change_shell", 0, FALSE)>>))
    /\ FReturn("True")
    /\ UNCHANGED <<funit, fb, fp, yay, omz>>

(************************** install_packages *****************************)
\* The description of a command: f"Install packages batch {n}", f"Install {pkg}"
BatchDesc(b) == <<"Install packages batch", b>>

\* Mutant of SingleDesc: the retry runs under the description of a batch.
SingleDescOfBatch(pkg) == <<"Install packages batch", pkg>>

SingleDesc(pkg) == <<"Install", pkg>>

\* The loop over the batches goes on with batch b, or ends: "Package
\* installation completed", return True.
ToBatch(trace, b) ==
    IF b <= NumBatches
    THEN /\ ftrace' = trace
         /\ fb' = b
         /\ fp' = 0
         /\ fpc' = "batch"
         /\ UNCHANGED fresult
    ELSE /\ ftrace' = Append(trace, FLog("packages_completed", 0, FALSE))
         /\ fb' = fb
         /\ fp' = 0
         /\ FReturn("True")

\* Mutant of P_Start: a failed database update ends the step.
P_StartUpdateFatal ==
    /\ funit = "install_packages" /\ fpc = "start"
    /\ IF ~yay
       THEN /\ ftrace' = ftrace \o <<FLog("installing_packages", 0, FALSE),
                                     FLog("yay_not_found", 0, TRUE)>>
            /\ FReturn("False")
            /\ UNCHANGED <<fb, fp>>
       ELSE \E ok \in BOOLEAN :
              IF ok
              THEN ToBatch(ftrace \o
                           <<FLog("installing_packages", 0, FALSE),
                             FLog("updating_databases", 0, FALSE),
                             FCmd("Update package databases", 0, Unit("update"), 0, ok)>>,
                           1)
              ELSE /\ ftrace' = ftrace \o
                                <<FLog("installing_packages", 0, FALSE),
                                  FLog("updating_databases", 0, FALSE),
                                  FCmd("Update package databases", 0, Unit("update"), 0, ok)>>
                   /\ FReturn("False")
                   /\ UNCHANGED <<fb, fp>>
    /\ UNCHANGED <<funit, yay, omz>>

\* Up to the database update: without yay the step returns False; a failed
\* update is a warning.
P_Start ==
    /\ funit = "install_packages" /\ fpc = "start"
    /\ IF ~yay
       THEN /\ ftrace' = ftrace \o <<FLog("installing_packages", 0, FALSE),
                                     FLog("yay_not_found", 0, TRUE)>>
            /\ FReturn("False")
            /\ UNCHANGED <<fb, fp>>
       ELSE \E ok \in BOOLEAN :
              ToBatch(ftrace \o
                      <<FLog("installing_packages", 0, FALSE),
                        FLog("updating_databases", 0, FALSE),
                        FCmd("Update package databases", 0, Unit("update"), 0, ok)>> \o
                      (IF ok THEN <<>>
                       ELSE <<FLog("update_failed_continuing", 0, FALSE)>>),
                      1)
    /\ UNCHANGED <<funit, yay, omz>>

\* One batch: yay -S on all its packages; when that fails the packages of
\* the batch are retried one by one.
P_Batch ==
    /\ funit = "install_packages" /\ fpc = "batch"
    /\ \E r \in PolkitOutcomes :
         IF PolkitReturn(r)
         THEN ToBatch(ftrace \o
                      <<FLog("installing_batch", fb, FALSE),
                        FPriv(BatchDesc(fb)[1], fb, BatchUnit(fb), 0, r)>>,
                      fb + 1)
         ELSE /\ ftrace' = ftrace \o
                           <<FLog("installing_batch", fb, FALSE),
                             FPriv(BatchDesc(fb)[1], fb, BatchUnit(fb), 0, r),
                             FLog("trying_alternative", fb, FALSE)>>
              /\ fp' = FirstOfBatch(fb)
              /\ fpc' = "single"
              /\ UNCHANGED <<fb, fresult>>
    /\ UNCHANGED <<funit, yay, omz>>

\* What follows the retry of package fp: the next package of the batch, or
\* the next batch.
AfterSingle(trace) ==
    IF fp < LastOfBatch(fb)
    THEN /\ ftrace' = trace
         /\ fp' = fp + 1
         /\ UNCHANGED <<fb, fpc, fresult>>
    ELSE ToBatch(trace, fb + 1)

\* for pkg in batch: yay -S on the one package; a failure is logged and the
\* package skipped.
P_Single ==
    /\ funit = "install_packages" /\ fpc = "single"
    /\ \E r \in PolkitOutcomes :
         AfterSingle(ftrace \o
                     <<FPriv(SingleDesc(fp)[1], fp, BatchUnit(fb),
                             fp - FirstOfBatch(fb) + 1, r)>> \o
                     (IF PolkitReturn(r) THEN <<>>
                      ELSE <<FLog("failed_to_install_skipping", fp, TRUE)>>))
    /\ UNCHANGED <<funit, yay, omz>>

\* The step functions are not in use while another machine is modelled.
FbRest == FbInit /\ funit = "install_yay" /\ ~yay /\ ~omz

\* The runner is not in use while the sequencer is modelled.
CmdRest == CmdInit /\ rfun = "run_user_command"

\* The window after create_ui: the main thread is in Gtk.main() and there is
\* no worker thread.
WinInit ==
    /\ main_thread = "loop"
    /\ alive = "running"
    /\ parked = [wpc |-> "none", wi |-> 0, nwg |-> "none"]
    /\ switches = 0
    /\ quit_at = 0

(***************************************************************************)
(* The window: clicks on its two buttons while worker threads run.         *)
(*                                                                         *)
(* wpc, wi and nwg belong to the worker thread that is scheduled; `parked` *)
(* holds those of a second worker thread, and a switch exchanges the two.  *)
(***************************************************************************)
\* A thread that has been started and has not left run_installation.
Executing(pc) == pc \notin {"none", "done"}

\* start_installation as the window runs it on a click, whatever the worker
\* threads are doing: the handler looks at self.is_installing only, and the
\* button takes the click while it is sensitive.  A thread that is started
\* while another executes becomes the scheduled one.
install_button_clicked ==
    /\ alive = "running"
    /\ main_thread = "loop"
    /\ install_button
    /\ ~is_installing
    /\ log_buffer' = <<>>
    /\ \E response \in (IF variant = "install" THEN {"OK", "CANCEL"} ELSE {"OK"}) :
         IF response = "OK"
         THEN /\ runs < MaxWorkers
              /\ ~Executing(parked.wpc) \/ ~Executing(wpc)
              /\ runs' = runs + 1
              /\ parked' = IF Executing(wpc)
                            THEN [wpc |-> wpc, wi |-> wi, nwg |-> nwg]
                            ELSE parked
              /\ wpc' = "begin"
              /\ wi' = 0
              /\ nwg' = "none"
              /\ dialogs' = <<>>
              /\ emitted' = <<>>
              /\ published' = <<>>
              /\ results' = <<>>
              /\ thread_start
         ELSE UNCHANGED <<runs, wpc, wi, nwg, parked, main_thread, dialogs,
                          emitted, published, results>>
    /\ UNCHANGED <<variant, is_installing, total_steps, current_step, idle,
                   progress_bar, status_label, install_button>>
    /\ UNCHANGED <<alive, switches, quit_at>>

\* The interpreter schedules the other worker thread.
Switch ==
    /\ alive # "exited"
    /\ Executing(parked.wpc)
    /\ switches < MaxSwitches
    /\ switches' = switches + 1
    /\ parked' = [wpc |-> wpc, wi |-> wi, nwg |-> nwg]
    /\ wpc' = parked.wpc
    /\ wi' = parked.wi
    /\ nwg' = parked.nwg
    /\ UNCHANGED <<variant, runs, is_installing, total_steps, current_step, idle,
                   log_buffer, progress_bar, status_label, install_button,
                   dialogs, emitted, published, results>>
    /\ UNCHANGED <<main_thread, alive, quit_at>>

\* A step function of the scheduled worker is being executed.
StepInFlight == wpc = "return"

\* The Quit button, or the close button of the window: self.window.destroy(),
\* whose "destroy" signal calls Gtk.main_quit.  Nothing is sent to the worker
\* thread or to the process of its command.
Quit ==
    /\ alive = "running"
    /\ main_thread = "loop"
    /\ alive' = "quit"
    /\ quit_at' = IF StepInFlight THEN wi ELSE 0
    /\ UNCHANGED runVars
    /\ UNCHANGED <<main_thread, parked, switches>>

\* Gtk.main() has returned: run() and main() return and the interpreter
\* exits, which ends the daemon threads where they are.
Exit ==
    /\ alive = "quit"
    /\ alive' = "exited"
    /\ UNCHANGED runVars
    /\ UNCHANGED <<main_thread, parked, switches, quit_at>>

(***************************************************************************)
(* Update manager: scripts/updates.py.                                     *)
(*                                                                         *)
(* check_updates starts a thread for the flatpak check; that thread starts *)
(* the thread of the pacman check, which starts the thread of the AUR      *)
(* check.  One step of a check thread is its whole function.               *)
(***************************************************************************)
\* Number of check_updates calls followed: the one of __init__ and the
\* Refresh clicks.
MaxChecks == 2

\* Largest number of updates a check finds.
MaxUpdates == 1

PkgTypes == {"flatpak", "pacman", "yay"}

\* A callback in the idle queue of the update manager.
UmCb(cb, pkg, n, msg) == [cb |-> cb, pkg |-> pkg, n |-> n, msg |-> msg]

\* add_log(message, color_tag): GLib.idle_add(self._add_log_idle, ...)
add_log(msg) == UmCb("_add_log_idle", "none", 0, msg)

\* A widget was mutated by a thread.
Touch(widgets, thread) == um_touched \cup {<<w, thread>> : w \in widgets}

\* A Gtk call made outside the main thread races with the main loop: the
\* text it sets may or may not be the one the widget ends up with.
RacyWrite(text) == \E landed \in BOOLEAN :
    um_progress_bar' = IF landed THEN text ELSE um_progress_bar

\* check_updates(): called by __init__ and by on_refresh_clicked, on the main
\* thread.
check_updates(queue, touched) ==
    /\ um_idle' = Append(queue, add_log("Checking for updates..."))
    /\ um_progress_bar' = "Checking Flatpak updates..."
    /\ um_touched' = touched \cup {<<"progress_bar", "main">>}
    /\ um_checks' = Append(um_checks, "flatpak")

\* UpdateManager.__init__: create_ui(), then check_updates().
UpdInit ==
    /\ um_checks = <<"flatpak">>
    /\ um_idle = <<add_log("Checking for updates...")>>
    /\ um_updates = [t \in PkgTypes |-> 0]
    /\ um_progress_bar = "Checking Flatpak updates..."
    /\ um_buttons = FALSE
    /\ um_log = ""
    /\ um_touched = {<<"progress_bar", "main">>}
    /\ um_runs = <<>>
    /\ um_selected = {}
    /\ um_timeouts = 0

\* The thread of check_flatpak_updates: subprocess.run returns or raises.
check_flatpak_updates ==
    \E c \in 1..Len(um_checks) :
        /\ um_checks[c] = "flatpak"
        /\ \/ \E n \in 0..MaxUpdates :
                /\ um_idle' = Append(um_idle,
                                     UmCb("update_ui_with_updates", "flatpak", n, ""))
                /\ RacyWrite("Checking Pacman updates...")
                /\ um_touched' = Touch({"progress_bar"}, "check_flatpak_updates")
                /\ um_checks' = [um_checks EXCEPT ![c] = "pacman"]
           \/ /\ um_idle' = Append(um_idle, add_log("Error checking Flatpak updates"))
              /\ um_checks' = [um_checks EXCEPT ![c] = "died"]
              /\ UNCHANGED <<um_progress_bar, um_touched>>
        /\ UNCHANGED <<um_updates, um_buttons, um_log, updRunVars>>

\* The thread of check_pacman_updates.  With check=False subprocess.run
\* raises no CalledProcessError.
check_pacman_updates ==
    \E c \in 1..Len(um_checks) :
        /\ um_checks[c] = "pacman"
        /\ \/ \E n \in 0..MaxUpdates :
                /\ um_idle' = Append(um_idle,
                                     UmCb("update_ui_with_updates", "pacman", n, ""))
                /\ RacyWrite("Checking AUR updates...")
                /\ um_touched' = Touch({"progress_bar"}, "check_pacman_updates")
                /\ um_checks' = [um_checks EXCEPT ![c] = "yay"]
           \/ /\ um_idle' = Append(um_idle, add_log("Error checking Pacman updates"))
              /\ um_checks' = [um_checks EXCEPT ![c] = "died"]
              /\ UNCHANGED <<um_progress_bar, um_touched>>
        /\ UNCHANGED <<um_updates, um_buttons, um_log, updRunVars>>

\* The thread of check_aur_updates: finish_update_check is scheduled on both
\* paths.  The callback carries the number of the check it ends, which the
\* program does not keep.
check_aur_updates ==
    \E c \in 1..Len(um_checks) :
        /\ um_checks[c] = "yay"
        /\ \/ \E n \in 0..MaxUpdates :
                um_idle' = um_idle \o
                    <<UmCb("update_ui_with_updates", "yay", n, ""),
                      UmCb("finish_update_check", "none", c, "")>>
           \/ um_idle' = um_idle \o
                    <<add_log("Error checking AUR updates"),
                      UmCb("finish_update_check", "none", c, "")>>
        /\ um_checks' = [um_checks EXCEPT ![c] = "finished"]
        /\ UNCHANGED <<um_updates, um_progress_bar, um_buttons, um_log, um_touched,
                       updRunVars>>

\* _add_log_idle(message, color_tag): the line is appended to the log view
\* and pushed to the status bar.  Of the log view its last line is followed.
_add_log_idle(c) ==
    /\ um_log' = c.msg
    /\ um_idle' = Tail(um_idle)
    /\ um_touched' = Touch({"log_view", "status_bar"}, "main")
    /\ UNCHANGED <<um_checks, um_updates, um_progress_bar, um_buttons>>

\* update_ui_with_updates(pkg_type, updates)
update_ui_with_updates(c) ==
    /\ um_updates' = [um_updates EXCEPT ![c.pkg] = c.n]
    /\ um_idle' = Append(Tail(um_idle), add_log("Found updates"))
    /\ um_touched' = Touch({"listbox", "count_label"}, "main")
    /\ UNCHANGED <<um_checks, um_progress_bar, um_buttons, um_log>>

\* finish_update_check(): the check whose chain scheduled it is done.
finish_update_check(c) ==
    LET total_updates == um_updates["flatpak"] + um_updates["pacman"] + um_updates["yay"]
    IN  /\ IF total_updates > 0
           THEN /\ um_buttons' = TRUE
                /\ um_idle' = Append(Tail(um_idle), add_log("Update check complete"))
                /\ um_touched' = Touch({"update_all_btn", "update_selected_btn",
                                        "progress_bar"}, "main")
           ELSE /\ um_buttons' = um_buttons
                /\ um_idle' = Append(Tail(um_idle), add_log("System is up to date!"))
                /\ um_touched' = Touch({"progress_bar"}, "main")
        /\ um_progress_bar' = "Ready"
        /\ um_checks' = [um_checks EXCEPT ![c.n] = "done"]
        /\ UNCHANGED <<um_updates, um_log>>

\* GLib.idle_add(self.progress_bar.set_text, text), run by the main loop.
\* The fraction of the bar is not followed, so the set_fraction scheduled
\* just before it is part of this callback.
progress_bar_set_text(c) ==
    /\ um_progress_bar' = c.msg
    /\ um_idle' = Tail(um_idle)
    /\ um_touched' = Touch({"progress_bar"}, "main")
    /\ UNCHANGED <<um_checks, um_updates, um_buttons, um_log>>

\* GLib.idle_add(button.set_sensitive, True), run by the main loop; c.pkg
\* names the button.
set_sensitive(c) ==
    /\ um_buttons' = TRUE
    /\ um_idle' = Tail(um_idle)
    /\ um_touched' = Touch({c.pkg}, "main")
    /\ UNCHANGED <<um_checks, um_updates, um_progress_bar, um_log>>

\* One iteration of the main loop of the update manager.
UmMainLoop ==
    /\ um_idle # <<>>
    /\ LET c == Head(um_idle) IN
         CASE c.cb = "_add_log_idle" -> _add_log_idle(c)
           [] c.cb = "update_ui_with_updates" -> update_ui_with_updates(c)
           [] c.cb = "set_text" -> progress_bar_set_text(c)
           [] c.cb = "set_sensitive" -> set_sensitive(c)
           [] OTHER -> finish_update_check(c)
    /\ UNCHANGED updRunVars

\* on_refresh_clicked(button): the handler of the Refresh button, which is
\* also the callback of the timer run_updates sets.
on_refresh_clicked ==
    /\ Len(um_checks) < MaxChecks
    /\ um_updates' = [t \in PkgTypes |-> 0]
    /\ um_selected' = {}
    /\ um_buttons' = FALSE
    /\ check_updates(Append(um_idle, add_log("Refreshing update list...")),
                     Touch({"listbox", "count_label", "update_all_btn",
                            "update_selected_btn"}, "main"))
    /\ UNCHANGED <<um_log, um_runs>>

\* A click on Refresh: the button is sensitive at all times.
RefreshClicked == on_refresh_clicked /\ UNCHANGED um_timeouts

\* The timer of run_updates fires; on_refresh_clicked returns None, which
\* removes the timer.
RefreshTimeout ==
    /\ um_timeouts > 0
    /\ um_timeouts' = um_timeouts - 1
    /\ on_refresh_clicked

\* Number of run_updates threads followed.
MaxUpdateRuns == 2

\* perform_updates(): both buttons are made insensitive and the thread of
\* run_updates is started.
perform_updates ==
    /\ um_buttons' = FALSE
    /\ um_touched' = Touch({"update_all_btn", "update_selected_btn"}, "main")
    /\ um_runs' = Append(um_runs, "flatpak")

\* on_update_all_clicked(button): a click on Update All, which needs the
\* button to be sensitive; every available update is selected.
on_update_all_clicked ==
    /\ um_buttons
    /\ Len(um_runs) < MaxUpdateRuns
    /\ um_idle' = Append(um_idle, add_log("Starting update of all packages..."))
    /\ um_selected' = {t \in PkgTypes : um_updates[t] > 0}
    /\ perform_updates
    /\ UNCHANGED <<um_checks, um_updates, um_progress_bar, um_log, um_timeouts>>

\* on_update_toggled(checkbutton, pkg_type, package_name): the user ticks or
\* clears the checkbox of a row.  With at most one row per package type the
\* selection of the type is not empty exactly when its row is ticked.
on_update_toggled ==
    \E t \in PkgTypes :
        /\ um_updates[t] > 0
        /\ um_selected' = IF t \in um_selected THEN um_selected \ {t}
                                                ELSE um_selected \cup {t}
        /\ UNCHANGED <<um_checks, um_idle, um_updates, um_progress_bar, um_buttons,
                       um_log, um_touched, um_runs, um_timeouts>>

\* on_update_selected_clicked(button): a click on Update Selected; the
\* selection is what the checkboxes hold.
on_update_selected_clicked ==
    /\ um_buttons
    /\ Len(um_runs) < MaxUpdateRuns
    /\ um_idle' = Append(um_idle, add_log("Starting update of selected packages..."))
    /\ perform_updates
    /\ UNCHANGED <<um_checks, um_updates, um_progress_bar, um_log, um_selected,
                   um_timeouts>>

\* The order of the parts of run_updates.
NextPart(part) ==
    CASE part = "flatpak" -> "pacman"
      [] part = "pacman" -> "yay"
      [] part = "yay" -> "finalize"
      [] OTHER -> "finished"

\* What the update command of a part brings: return code 0, another return
\* code, or an exception of subprocess.run.
UpdateOutcomes == {"Successfully updated", "Failed to update", "Error updating"}

\* The callbacks one part of run_updates schedules when its package type has
\* a selection: the progress text, the command line, and the outcome.  The
\* pacman part announces the request for permissions first.
PartCallbacks(part, outcome) ==
    <<UmCb("set_text", part, 0, "Updating")>>
    \o (IF part = "pacman" THEN <<add_log("Requesting sudo permissions")>> ELSE <<>>)
    \o <<add_log("Running"), add_log(outcome)>>

\* The thread of run_updates executes its next part: the update of one
\* package type, read from self.updates when the part is reached, or the
\* final part, which schedules the re-enabling of the buttons and the timer
\* of the refresh.
run_updates ==
    \E w \in 1..Len(um_runs) :
        /\ um_runs[w] # "finished"
        /\ um_runs' = [um_runs EXCEPT ![w] = NextPart(um_runs[w])]
        /\ IF um_runs[w] = "finalize"
           THEN /\ um_idle' = um_idle \o
                      <<UmCb("set_text", "none", 0, "Update complete!"),
                        add_log("All updates completed!"),
                        UmCb("set_sensitive", "update_all_btn", 0, ""),
                        UmCb("set_sensitive", "update_selected_btn", 0, "")>>
                /\ um_timeouts' = um_timeouts + 1
           ELSE /\ IF um_runs[w] \in um_selected
                   THEN \E outcome \in UpdateOutcomes :
                            um_idle' = um_idle \o PartCallbacks(um_runs[w], outcome)
                   ELSE um_idle' = um_idle
                /\ UNCHANGED um_timeouts
        /\ UNCHANGED <<um_checks, um_updates, um_progress_bar, um_buttons, um_log,
                       um_touched, um_selected>>

\* The update manager is not in use.
UpdRest ==
    /\ um_checks = <<>>
    /\ um_idle = <<>>
    /\ um_updates = [t \in PkgTypes |-> 0]
    /\ um_progress_bar = ""
    /\ um_buttons = FALSE
    /\ um_log = ""
    /\ um_touched = {}
    /\ um_runs = <<>>
    /\ um_selected = {}
    /\ um_timeouts = 0

(***************************************************************************)
(* Prayer-time script: scripts/lock-salaat.py.                             *)
(*                                                                         *)
(* A time of day "HH:MM" is the pair <<HH, MM>>; a returned string         *)
(* f"Next Prayer: {prayer} {HH}:{MM}" is the record of its three parts.    *)
(***************************************************************************)
\* Times of day tried for datetime.now(tz): this many in every hour.
TimesPerHour == 4

Times == {(60 * k) \div TimesPerHour : k \in 0..(24 * TimesPerHour - 1)}

\* prayers = ['Fajr', 'Dhuhr', 'Asr', 'Maghrib', 'Isha']
Prayers == <<"Fajr", "Dhuhr", "Asr", "Maghrib", "Isha">>

\* What requests.get, raise_for_status, response.json() and the lookups in
\* the decoded body may bring for today's timings.
Responses ==
    {"ok", "request_error", "http_error", "not_json", "code_not_200",
     "no_timings", "bad_time"}

\* The same for the request for tomorrow's timings, whose code is not looked at.
ResponsesTomorrow == {"ok", "request_error", "http_error", "no_timings"}

\* The timings a well-formed response may carry.
ApiTimings ==
    { [Fajr |-> <<5, 0>>, Dhuhr |-> <<12, 30>>, Asr |-> <<16, 0>>,
       Maghrib |-> <<18, 30>>, Isha |-> <<20, 0>>],
      [Fajr |-> <<4, 12>>, Dhuhr |-> <<12, 5>>, Asr |-> <<15, 41>>,
       Maghrib |-> <<17, 58>>, Isha |-> <<19, 13>>] }

\* "Next Prayer: Prayer Time"
PrayerTime == [prayer |-> "Prayer Time", hh |-> 0, mm |-> 0]

NextPrayer(prayer, hh, mm) == [prayer |-> prayer, hh |-> hh, mm |-> mm]

\* datetime.strptime(f"{today} {time_str}", "%Y-%m-%d %H:%M") as minutes
\* since midnight
strptime(time_str) == time_str[1] * 60 + time_str[2]

\* next_prayer_time.strftime("%H:%M")
strftime(t) == <<t \div 60, t % 60>>

\* The first prayer of the list whose time is later than t, or 0.
FirstAfter(t, tm) ==
    LET later == {k \in 1..Len(Prayers) : t < strptime(tm[Prayers[k]])}
    IN  IF later = {} THEN 0 ELSE CHOOSE k \in later : \A j \in later : k <= j

\* The try block of get_next_prayer_formatted: the value it returns, or that
\* an exception leaves it.
FormattedTry(t, resp, resp2, tm) ==
    CASE resp = "code_not_200" -> [raised |-> FALSE, value |-> PrayerTime]
      [] resp # "ok" -> [raised |-> TRUE, value |-> PrayerTime]
      [] FirstAfter(t, tm) # 0 ->
           LET prayer == Prayers[FirstAfter(t, tm)]
               time_formatted == strftime(strptime(tm[prayer]))
           IN  [raised |-> FALSE,
                value |-> NextPrayer(prayer, time_formatted[1], time_formatted[2])]
      [] resp2 # "ok" -> [raised |-> TRUE, value |-> PrayerTime]
      [] OTHER ->
           LET time_formatted == strftime(strptime(tm["Fajr"]))
           IN  [raised |-> FALSE,
                value |-> NextPrayer("Fajr", time_formatted[1], time_formatted[2])]

\* get_next_prayer_formatted(): each of its three except clauses returns
\* "Next Prayer: Prayer Time", so no exception leaves the function.
get_next_prayer_formatted(t, resp, resp2, tm) ==
    LET r == FormattedTry(t, resp, resp2, tm)
    IN  IF r.raised THEN [raised |-> FALSE, value |-> PrayerTime] ELSE r

\* The estimates of offline_prayer_calculation in half hours: 5.0, 12.5,
\* 16.0, 18.5 and 20.0.
OfflineHalfHours ==
    [Fajr |-> 10, Dhuhr |-> 25, Asr |-> 32, Maghrib |-> 37, Isha |-> 40]

\* offline_prayer_calculation(): current_hour < hour, with current_hour =
\* now.hour + now.minute/60; hours = int(hour), minutes = int((hour - hours) * 60).
offline_prayer_calculation(t) ==
    LET later == {k \in 1..Len(Prayers) : 2 * t < 60 * OfflineHalfHours[Prayers[k]]}
    IN  IF later = {}
        THEN NextPrayer("Fajr", 5, 0)
        ELSE LET k == CHOOSE i \in later : \A j \in later : i <= j
                 hour2 == OfflineHalfHours[Prayers[k]]
             IN  NextPrayer(Prayers[k], hour2 \div 2, ((hour2 % 2) * 60) \div 2)

\* get_next_prayer_with_fallback(): the API first, the offline calculation
\* if that raises.
get_next_prayer_with_fallback(t, resp, resp2, tm) ==
    LET r == get_next_prayer_formatted(t, resp, resp2, tm)
    IN  IF r.raised THEN offline_prayer_calculation(t) ELSE r.value

\* The script is started at some time of day, and the API answers somehow.
SalInit ==
    /\ now_minutes \in Times
    /\ today_response \in Responses
    /\ response_tomorrow \in ResponsesTomorrow
    /\ timings \in ApiTimings
    /\ spc = "entry"
    /\ sresult = PrayerTime

\* result = get_next_prayer_with_fallback(); print(result)
lock_salaat_main ==
    /\ spc = "entry"
    /\ sresult' = get_next_prayer_with_fallback(now_minutes, today_response,
                                                 response_tomorrow, timings)
    /\ spc' = "returned"
    /\ UNCHANGED <<now_minutes, today_response, response_tomorrow, timings>>

\* The script is not in use.
SalRest ==
    /\ now_minutes = 0
    /\ today_response = "ok"
    /\ response_tomorrow = "ok"
    /\ timings = [Fajr |-> <<5, 0>>, Dhuhr |-> <<12, 30>>, Asr |-> <<16, 0>>,
                  Maghrib |-> <<18, 30>>, Isha |-> <<20, 0>>]
    /\ spc = "entry"
    /\ sresult = PrayerTime

(***************************************************************************)
(* main(): the entry point of install.py and HxA.py.                       *)
(***************************************************************************)
\* What the user may type at the prompt; "eof" is a closed standard input,
\* on which input() raises EOFError.
Answers == {"y", "Y", "n", "", "yes", "eof"}

\* response.lower()
lower(str) == IF str = "Y" THEN "y" ELSE str

\* sys.exit(1)
sys_exit(status) ==
    /\ exit_status' = status
    /\ mpc' = "exited"

\* An exception nothing catches: the interpreter prints the traceback and
\* the process exits with status 1.
Uncaught == sys_exit(1)

\* The installer is started by some user, with or without ~/dots.
EntryInit ==
    /\ euid \in {0, 1000}
    /\ dots \in BOOLEAN
    /\ answer \in Answers
    /\ mkdir_ok \in BOOLEAN
    /\ mpc = "start"
    /\ exit_status = 0
    /\ ui_created = FALSE
    /\ dots_missing = ~dots

\* if os.geteuid() == 0: print(...); sys.exit(1)
M_CheckRoot ==
    /\ mpc = "start"
    /\ IF euid = 0 THEN sys_exit(1)
                   ELSE mpc' = "check_dots" /\ UNCHANGED exit_status
    /\ UNCHANGED <<euid, dots, answer, mkdir_ok, ui_created, dots_missing>>

\* if not dots_dir.exists(): install.py goes on to ask, HxA.py exits.
M_CheckDots ==
    /\ mpc = "check_dots"
    /\ IF dots THEN mpc' = "app" /\ UNCHANGED exit_status
       ELSE IF variant = "install" THEN mpc' = "prompt" /\ UNCHANGED exit_status
       ELSE sys_exit(1)
    /\ UNCHANGED <<euid, dots, answer, mkdir_ok, ui_created, dots_missing>>

\* Mutant of M_Prompt: once the directory is created main goes on to start
\* the installer.
M_PromptThenStart ==
    /\ mpc = "prompt"
    /\ IF answer = "eof" THEN Uncaught /\ UNCHANGED dots
       ELSE IF lower(answer) = "y"
            THEN IF mkdir_ok THEN /\ dots' = TRUE
                                  /\ mpc' = "app"
                                  /\ UNCHANGED exit_status
                             ELSE Uncaught /\ UNCHANGED dots
            ELSE sys_exit(1) /\ UNCHANGED dots
    /\ UNCHANGED <<euid, answer, mkdir_ok, ui_created, dots_missing>>

\* install.py: response = input(...); on 'y' the directory is created; then
\* sys.exit(1) whatever the answer was.
M_Prompt ==
    /\ mpc = "prompt"
    /\ IF answer = "eof" THEN Uncaught /\ UNCHANGED dots
       ELSE IF lower(answer) = "y"
            THEN IF mkdir_ok THEN dots' = TRUE /\ sys_exit(1)
                             ELSE Uncaught /\ UNCHANGED dots
            ELSE sys_exit(1) /\ UNCHANGED dots
    /\ UNCHANGED <<euid, answer, mkdir_ok, ui_created, dots_missing>>

\* app = DotfilesInstaller(); app.run(): create_ui() and Gtk.main()
M_App ==
    /\ mpc = "app"
    /\ ui_created' = TRUE
    /\ mpc' = "ui"
    /\ UNCHANGED <<euid, dots, answer, mkdir_ok, exit_status, dots_missing>>

\* main() is not in use: it has started the installer.
EntryRest ==
    /\ euid = 1000
    /\ dots = TRUE
    /\ answer = ""
    /\ mkdir_ok = TRUE
    /\ mpc = "ui"
    /\ exit_status = 0
    /\ ui_created = TRUE
    /\ dots_missing = FALSE

ScriptsRest == UpdRest /\ SalRest /\ EntryRest

(***************************************************************************)
(* Specifications.                                                         *)
(***************************************************************************)
Init ==
    RunInit /\ CmdRest /\ FbRest /\ WinInit /\ ScriptsRest

Next ==
    \/ start_installation /\ UNCHANGED <<cmdVars, fbVars, winOther, scriptVars>>
    \/ MainLoop /\ UNCHANGED <<cmdVars, fbVars, winVars, scriptVars>>
    \/ W_Begin /\ UNCHANGED <<cmdVars, fbVars, winVars, scriptVars>>
    \/ W_Init /\ UNCHANGED <<cmdVars, fbVars, winVars, scriptVars>>
    \/ W_Publish /\ UNCHANGED <<cmdVars, fbVars, winVars, scriptVars>>
    \/ W_Call /\ UNCHANGED <<cmdVars, fbVars, winVars, scriptVars>>
    \/ W_Return /\ UNCHANGED <<cmdVars, fbVars, winVars, scriptVars>>
    \/ W_Launch /\ UNCHANGED <<cmdVars, fbVars, winVars, scriptVars>>
    \/ W_NwgSpawn /\ UNCHANGED <<cmdVars, fbVars, winVars, scriptVars>>
    \/ W_NwgPoll /\ UNCHANGED <<cmdVars, fbVars, winVars, scriptVars>>
    \/ W_NwgWait /\ UNCHANGED <<cmdVars, fbVars, winVars, scriptVars>>
    \/ W_Complete /\ UNCHANGED <<cmdVars, fbVars, winVars, scriptVars>>
    \/ W_Finally /\ UNCHANGED <<cmdVars, fbVars, winVars, scriptVars>>
    \/ NwgExit /\ UNCHANGED <<cmdVars, fbVars, winVars, scriptVars>>

Spec == Init /\ [][Next]_vars

RunnerInit ==
    RunInit /\ CmdInit /\ FbRest /\ WinInit /\ ScriptsRest

RunnerNext ==
    \/ R_Spawn /\ UNCHANGED <<fbVars, winVars, scriptVars, read_failed>>
    \/ R_Check /\ UNCHANGED <<fbVars, winVars, scriptVars, read_failed>>
    \/ R_Poll /\ UNCHANGED <<fbVars, winVars, scriptVars, read_failed>>
    \/ R_Read /\ UNCHANGED <<fbVars, winVars, scriptVars>>
    \/ R_Wake /\ UNCHANGED <<fbVars, winVars, scriptVars, read_failed>>
    \/ R_Communicate /\ UNCHANGED <<fbVars, winVars, scriptVars, read_failed>>
    \/ R_Run /\ UNCHANGED <<fbVars, winVars, scriptVars, read_failed>>
    \/ Tick /\ UNCHANGED <<fbVars, winVars, scriptVars, read_failed>>
    \/ ProcWrite /\ UNCHANGED <<fbVars, winVars, scriptVars, read_failed>>
    \/ ProcFork /\ UNCHANGED <<fbVars, winVars, scriptVars, read_failed>>
    \/ HolderExit /\ UNCHANGED <<fbVars, winVars, scriptVars, read_failed>>
    \/ ProcExit /\ UNCHANGED <<fbVars, winVars, scriptVars, read_failed>>

SpecRunner == RunnerInit /\ [][RunnerNext]_vars

FallbackInit ==
    RunInit /\ variant = "install" /\ CmdRest /\ FbInit /\ WinInit /\ ScriptsRest

FallbackNext ==
    \/ Y_Start /\ UNCHANGED <<runVars, cmdVars, winVars, scriptVars>>
    \/ Y_Clone /\ UNCHANGED <<runVars, cmdVars, winVars, scriptVars>>
    \/ Y_Download /\ UNCHANGED <<runVars, cmdVars, winVars, scriptVars>>
    \/ Y_Build /\ UNCHANGED <<runVars, cmdVars, winVars, scriptVars>>
    \/ Y_SudoBuild /\ UNCHANGED <<runVars, cmdVars, winVars, scriptVars>>
    \/ Y_Verify /\ UNCHANGED <<runVars, cmdVars, winVars, scriptVars>>
    \/ Z_Start /\ UNCHANGED <<runVars, cmdVars, winVars, scriptVars>>
    \/ Z_Clone /\ UNCHANGED <<runVars, cmdVars, winVars, scriptVars>>
    \/ Z_Copy /\ UNCHANGED <<runVars, cmdVars, winVars, scriptVars>>
    \/ Z_Chsh /\ UNCHANGED <<runVars, cmdVars, winVars, scriptVars>>
    \/ P_Start /\ UNCHANGED <<runVars, cmdVars, winVars, scriptVars>>
    \/ P_Batch /\ UNCHANGED <<runVars, cmdVars, winVars, scriptVars>>
    \/ P_Single /\ UNCHANGED <<runVars, cmdVars, winVars, scriptVars>>

SpecFallback == FallbackInit /\ [][FallbackNext]_vars

\* The window with its worker threads: the main loop runs until the window
\* is closed, the threads until the process exits.
WindowInit ==
    RunInit /\ CmdRest /\ FbRest /\ WinInit /\ ScriptsRest

\* A worker thread takes a step: the process is there, and the main loop is
\* not further behind than the model follows it.
WorkerRuns == alive # "exited" /\ Len(idle) <= MaxPending

WindowNext ==
    \/ install_button_clicked /\ UNCHANGED <<cmdVars, fbVars, scriptVars>>
    \/ Switch /\ UNCHANGED <<cmdVars, fbVars, scriptVars>>
    \/ Quit /\ UNCHANGED <<cmdVars, fbVars, scriptVars>>
    \/ Exit /\ UNCHANGED <<cmdVars, fbVars, scriptVars>>
    \/ alive = "running" /\ MainLoop /\ UNCHANGED <<cmdVars, fbVars, winVars, scriptVars>>
    \/ WorkerRuns /\ W_Begin /\ UNCHANGED <<cmdVars, fbVars, winVars, scriptVars>>
    \/ WorkerRuns /\ W_Init /\ UNCHANGED <<cmdVars, fbVars, winVars, scriptVars>>
    \/ WorkerRuns /\ W_Publish /\ UNCHANGED <<cmdVars, fbVars, winVars, scriptVars>>
    \/ WorkerRuns /\ W_Call /\ UNCHANGED <<cmdVars, fbVars, winVars, scriptVars>>
    \/ WorkerRuns /\ W_Return /\ UNCHANGED <<cmdVars, fbVars, winVars, scriptVars>>
    \/ WorkerRuns /\ W_Launch /\ UNCHANGED <<cmdVars, fbVars, winVars, scriptVars>>
    \/ WorkerRuns /\ W_NwgSpawn /\ UNCHANGED <<cmdVars, fbVars, winVars, scriptVars>>
    \/ WorkerRuns /\ W_NwgPoll /\ UNCHANGED <<cmdVars, fbVars, winVars, scriptVars>>
    \/ WorkerRuns /\ W_NwgWait /\ UNCHANGED <<cmdVars, fbVars, winVars, scriptVars>>
    \/ WorkerRuns /\ W_Complete /\ UNCHANGED <<cmdVars, fbVars, winVars, scriptVars>>
    \/ WorkerRuns /\ W_Finally /\ UNCHANGED <<cmdVars, fbVars, winVars, scriptVars>>
    \/ NwgExit /\ UNCHANGED <<cmdVars, fbVars, winVars, scriptVars>>

SpecWindow == WindowInit /\ [][WindowNext]_vars

\* The update manager from its construction on.
UpdatesInit ==
    RunInit /\ variant = "install" /\ CmdRest /\ FbRest /\ WinInit /\ UpdInit /\ SalRest
    /\ EntryRest

\* A check thread takes a step: the main loop is not further behind than the
\* model follows it.
CheckRuns == Len(um_idle) <= MaxPending

UpdatesNext ==
    \/ CheckRuns /\ check_flatpak_updates
                 /\ UNCHANGED <<runVars, cmdVars, fbVars, winVars, salVars, entryVars>>
    \/ CheckRuns /\ check_pacman_updates
                 /\ UNCHANGED <<runVars, cmdVars, fbVars, winVars, salVars, entryVars>>
    \/ CheckRuns /\ check_aur_updates
                 /\ UNCHANGED <<runVars, cmdVars, fbVars, winVars, salVars, entryVars>>
    \/ UmMainLoop /\ UNCHANGED <<runVars, cmdVars, fbVars, winVars, salVars, entryVars>>
    \/ RefreshClicked /\ UNCHANGED <<runVars, cmdVars, fbVars, winVars, salVars, entryVars>>
    \/ RefreshTimeout /\ UNCHANGED <<runVars, cmdVars, fbVars, winVars, salVars, entryVars>>
    \/ on_update_all_clicked
           /\ UNCHANGED <<runVars, cmdVars, fbVars, winVars, salVars, entryVars>>
    \/ on_update_selected_clicked
           /\ UNCHANGED <<runVars, cmdVars, fbVars, winVars, salVars, entryVars>>
    \/ on_update_toggled
           /\ UNCHANGED <<runVars, cmdVars, fbVars, winVars, salVars, entryVars>>
    \/ CheckRuns /\ run_updates
                 /\ UNCHANGED <<runVars, cmdVars, fbVars, winVars, salVars, entryVars>>

SpecUpdates == UpdatesInit /\ [][UpdatesNext]_vars

\* A step of one of the check threads, and a step of the main loop.
CheckThreadStep ==
    /\ CheckRuns
    /\ check_flatpak_updates \/ check_pacman_updates \/ check_aur_updates
    /\ UNCHANGED <<runVars, cmdVars, fbVars, winVars, salVars, entryVars>>

UmMainLoopStep ==
    UmMainLoop /\ UNCHANGED <<runVars, cmdVars, fbVars, winVars, salVars, entryVars>>

\* The update manager with its scheduling: a started thread is run by the
\* operating system, whose subprocess returns or raises, and Gtk.main()
\* dispatches the idle callbacks as long as there are any.  Nothing makes
\* the user click.
SpecUpdatesLive ==
    /\ UpdatesInit
    /\ [][UpdatesNext]_vars
    /\ WF_vars(CheckThreadStep)
    /\ WF_vars(UmMainLoopStep)

\* One run of the prayer-time script.
PrayerInit ==
    RunInit /\ variant = "install" /\ CmdRest /\ FbRest /\ WinInit /\ UpdRest /\ SalInit
    /\ EntryRest

PrayerNext ==
    lock_salaat_main /\ UNCHANGED <<runVars, cmdVars, fbVars, winVars, updVars, entryVars>>

SpecPrayer == PrayerInit /\ [][PrayerNext]_vars

\* main() from the start of the process.
EntryPointInit == RunInit /\ CmdRest /\ FbRest /\ WinInit /\ UpdRest /\ SalRest /\ EntryInit

EntryPointNext ==
    \/ M_CheckRoot /\ UNCHANGED <<runVars, cmdVars, fbVars, winVars, updVars, salVars>>
    \/ M_CheckDots /\ UNCHANGED <<runVars, cmdVars, fbVars, winVars, updVars, salVars>>
    \/ M_Prompt /\ UNCHANGED <<runVars, cmdVars, fbVars, winVars, updVars, salVars>>
    \/ M_App /\ UNCHANGED <<runVars, cmdVars, fbVars, winVars, updVars, salVars>>

SpecEntry == EntryPointInit /\ [][EntryPointNext]_vars

(***************************************************************************)
(* Properties of the sequencer.                                            *)
(***************************************************************************)
Range(f) == {f[k] : k \in DOMAIN f}

Last(q) == q[Len(q)]

Frac(p) == <<p.step, p.total>>

\* Every step called so far in the run has returned True.
AllStepsOk == \A k \in 1..Len(results) : results[k] = "ok"

\* The run has left run_installation.
RunOver == wpc = "done"

\* The run has called all its steps and each returned True.
AllSuccessRun == Len(results) = NumSteps /\ AllStepsOk

SuccessSurfaced == DialogCb("_show_success_dialog") \in Range(emitted)

ErrorSurfaced == \E c \in Range(emitted) : c.cb = "_show_error"

\* C1: in a run in which every step succeeds, the progress fractions
\* published through update_progress never decrease, and the value 1.0 is
\* published exactly once (never twice, and once by the end of the run).
C1_ProgressMonotoneReachesOneOnce ==
    AllStepsOk =>
        /\ \A j \in 1..(Len(published) - 1) :
               FracLeq(Frac(published[j]), Frac(published[j + 1]))
        /\ Cardinality({j \in 1..Len(published) : FracIsOne(Frac(published[j]))}) <= 1
        /\ RunOver =>
               Cardinality({j \in 1..Len(published) : FracIsOne(Frac(published[j]))}) = 1

\* C2: every published fraction is completed_units / total_units, where
\* completed_units counts the units that had finished successfully when the
\* fraction was published and total_units is the fixed number of units.
C2_ProgressIsCompletedOverTotal ==
    \A j \in 1..Len(published) :
        /\ published[j].step = published[j].completed
        /\ published[j].total = NumSteps

\* C3: once a fatal step has failed the run halts: no later step is started
\* and the last published progress counts only the steps completed before
\* the failure.
C3_FatalFailureHaltsWithCompletedProgress ==
    (Fatal(variant) /\ results # <<>> /\ Last(results) = "fail") =>
        /\ wpc \in {"finally", "done"}
        /\ wi = Len(results)
        /\ Last(published).step = Completed(results)
        /\ Last(published).total = NumSteps

\* The part of C3 the code keeps: a failed fatal step ends the run, and no
\* step after it is started.
FatalFailureHalts ==
    (Fatal(variant) /\ results # <<>> /\ Last(results) = "fail") =>
        /\ wpc \in {"finally", "done"}
        /\ wi = Len(results)
        /\ ErrorCb(wi) \in Range(emitted)
        /\ ~SuccessSurfaced

\* The user has not cleared the log since the run delivered its entries
\* (start_installation empties the buffer on every click it accepts).
LogKept == log_buffer # <<>>

\* C4: when a non-fatal step fails, a warning naming the step is logged (and
\* is in the log buffer once the main loop has caught up), the sequencer goes
\* on to the next step, and a run that ends without an exception ends with
\* the success outcome and without an error dialog.
C4_NonFatalFailureWarnsAndContinues ==
    \A k \in 1..Len(results) :
        (results[k] = "fail" /\ ~Fatal(variant)) =>
            /\ LogCb("step_warning", k, TRUE) \in Range(emitted)
            /\ wi > k
            /\ (k < NumSteps /\ wpc # "publish") => Len(published) > k
            /\ (RunOver /\ idle = <<>> /\ LogKept) =>
                   [what |-> "step_warning", step |-> k, is_error |-> TRUE]
                       \in Range(log_buffer)
            /\ (RunOver /\ "raise" \notin Range(results)) =>
                   SuccessSurfaced /\ ~ErrorSurfaced

\* Witness of C4: a run of install.py in which step 1 failed has ended with
\* the success dialog shown and the warning in the log.
C4_Witness ==
    /\ ~Fatal(variant)
    /\ RunOver
    /\ idle = <<>>
    /\ Len(results) = NumSteps
    /\ results[1] = "fail"
    /\ DialogCb("_show_success_dialog") \in Range(dialogs)
    /\ [what |-> "step_warning", step |-> 1, is_error |-> TRUE] \in Range(log_buffer)

\* What launch_nwg_displays returns: install.py returns True on every path
\* ("Continue anyway"), HxA.py returns False when the launch raised.
LaunchReturn(v, started) == v = "install" \/ started

\* A step failed in a way the installer treats as a failure: it raised, or
\* it returned False in the installer whose steps are fatal.
FailedSteps ==
    {k \in 1..Len(results) :
        results[k] = "raise" \/ (results[k] = "fail" /\ Fatal(variant))}

\* The description of step k reached the user with the failure: in the
\* error dialog, or in the status label next to the error dialog.
CauseSurfaced(k) ==
    \/ ErrorCb(k) \in Range(emitted)
    \/ /\ ErrorCb(0) \in Range(emitted)
       /\ ProgressCb(k, NumSteps, StepNames[k]) \in Range(emitted)

\* C5: at the end of every run a failure is surfaced with the description of
\* the step that caused it, and the success outcome is surfaced only when no
\* step failed and launch_nwg_displays did not report failure.
C5_OutcomeSurfacedWithCause ==
    RunOver =>
        /\ \A k \in FailedSteps : CauseSurfaced(k)
        /\ SuccessSurfaced =>
               (FailedSteps = {} /\ (nwg = "failed" => LaunchReturn(variant, FALSE)))

\* The part of C5 the code keeps: a step that fails fatally or raises ends
\* the run with the error dialog and without the success dialog.
FailureSurfaced ==
    (RunOver /\ FailedSteps # {}) =>
        /\ \A k \in FailedSteps : CauseSurfaced(k)
        /\ ~SuccessSurfaced

\* The run has published its completion: the final progress update
\* "Installation complete!" or the success dialog.
CompletePublished ==
    \E c \in Range(emitted) :
        \/ c.cb = "_show_success_dialog"
        \/ c.cb = "_update_progress_ui" /\ c.message = "Installation complete!"

\* C17: the run publishes its completion only after the nwg-displays process
\* it launched has terminated, or after the launch has failed; and while
\* that process runs the worker stays inside launch_nwg_displays.
C17_CompleteOnlyAfterNwgFinished ==
    /\ CompletePublished => nwg \in {"exited", "failed"}
    /\ nwg = "running" => wpc \in {"nwg_poll", "nwg_wait"}

\* Witness of C17: the worker waited in process.wait() for nwg-displays to
\* be closed and then published the completion.
C17_Witness ==
    /\ nwg = "exited"
    /\ LogCb("nwg_closed", 0, FALSE) \in Range(emitted)
    /\ SuccessSurfaced
    /\ RunOver

\* The worker is blocked on a process: in the command of a step function,
\* in time.sleep(2) after the launch of nwg-displays, or in process.wait().
WaitsOnProcess == wpc \in {"return", "nwg_poll", "nwg_wait"}

\* C18: the steps of run_installation are executed by the worker thread and
\* never by the main thread, and the main loop is free to run its next
\* callback at every moment, also while the worker waits on a process.
C18_CommandsRunOnWorkerThread ==
    /\ Executing(wpc) => main_thread = "loop"
    /\ idle # <<>> => ENABLED MainLoop

\* Witness of C18: the main loop has run every callback, the dialog about
\* nwg-displays among them, while the worker is blocked in process.wait().
C18_Witness ==
    /\ wpc = "nwg_wait"
    /\ nwg = "running"
    /\ idle = <<>>
    /\ DialogCb("_show_nwg_displays_dialog") \in Range(dialogs)
    /\ ~install_button

\* The main loop takes a step: the oldest idle callback runs.
MainLoopStep == idle # <<>> /\ idle' = Tail(idle)

\* The worker is at a position of run_installation from which it goes on to
\* read self.total_steps: in update_progress(i, self.total_steps, ...) of a
\* later step, or in the two calls after the loop.
ReadsTotalStepsLater ==
    wpc \in {"publish", "call", "return", "launch", "nwg_spawn", "nwg_poll",
             "nwg_wait", "complete"}

\* C14: the run state is written by the worker only: no step of the main
\* loop changes self.total_steps while the worker has yet to read it.
C14_RunStateWrittenByWorkerOnly ==
    [][(MainLoopStep /\ ReadsTotalStepsLater) => total_steps' = total_steps]_vars

\* Number of callbacks of the run that the main loop has executed: those
\* scheduled and no longer in the queue (callbacks of an earlier run may
\* still be ahead of them in the queue).
Executed == IF Len(idle) >= Len(emitted) THEN 0 ELSE Len(emitted) - Len(idle)

\* The log_message calls and the update_progress calls among the executed.
ExecutedLogs == {k \in 1..Executed : emitted[k].cb = "_append_log"}

ExecutedProgress == {k \in 1..Executed : emitted[k].cb = "_update_progress_ui"}

Max(S) == CHOOSE x \in S : \A y \in S : y <= x

\* The entries at the end of the log buffer are, one for one and in order,
\* those of the executed log_message calls.
LogsDeliveredInOrder ==
    /\ Len(log_buffer) >= Cardinality(ExecutedLogs)
    /\ \A k \in ExecutedLogs :
         LET behind == Cardinality({j \in ExecutedLogs : j >= k}) IN
           log_buffer[Len(log_buffer) - behind + 1] =
               [what |-> emitted[k].what, step |-> emitted[k].step,
                is_error |-> emitted[k].is_error]

\* The worker is inside run_installation and not waiting in process.wait().
WorkerNotWaiting == wpc \notin {"none", "done", "nwg_wait"}

Status ==
    CASE ErrorSurfaced -> "Failed"
      [] SuccessSurfaced -> "Succeeded"
      [] is_installing -> "Running"
      [] OTHER -> "Pending"

Terminal(st) == st \in {"Failed", "Succeeded"}

StatusRank(st) == CASE st = "Pending" -> 0 [] st = "Running" -> 1 [] OTHER -> 2

\* The worker is at a position of run_installation from which it publishes
\* progress or calls a step.
WorkerGoesOn == Executing(wpc) /\ wpc # "finally"

\* C21: within one run the status only moves forward, from Pending to Running
\* to one terminal status: a terminal status never changes, the worker does
\* nothing but leave run_installation once the outcome is scheduled, and no
\* run schedules both the error dialog and the success dialog.
C21_StatusOnlyMovesForward ==
    /\ [](~(ErrorSurfaced /\ SuccessSurfaced))
    /\ [](Terminal(Status) => ~WorkerGoesOn)
    /\ [][runs' = runs =>
             /\ StatusRank(Status') >= StatusRank(Status)
             /\ Terminal(Status) => Status' = Status]_vars

\* Witness of C21: a run went from Pending through Running to Failed when a
\* step raised after an earlier step had returned, and has ended.
C21_Witness ==
    /\ RunOver
    /\ Status = "Failed"
    /\ Len(results) >= 2
    /\ Last(results) = "raise"
    /\ ~is_installing

\* The steps the run has started, in the order of their start: every step
\* function opens with a log_message.
StartedSteps ==
    SelectSeq(emitted, LAMBDA c : c.cb = "_append_log" /\ c.what = "step_body")

\* C22: the k-th step started in a run is step k of the list, so the steps
\* start in their declared order and none starts twice; and all steps started
\* have returned, but for the one the worker is in.
C22_StepsStartInOrderOnceEach ==
    /\ \A k \in 1..Len(StartedSteps) : StartedSteps[k].step = k
    /\ Len(StartedSteps) <= NumSteps
    /\ Len(StartedSteps) = Len(results) + (IF wpc = "return" THEN 1 ELSE 0)

\* Witness of C22: every step of the list was started and has returned.
C22_Witness ==
    /\ Len(StartedSteps) = NumSteps
    /\ Len(results) = NumSteps
    /\ wpc \in {"launch", "finally"}

\* The _set_installing_state callbacks the run has scheduled, in order.
ButtonStates == SelectSeq(emitted, LAMBDA c : c.cb = "_set_installing_state")

\* C25: when run_installation has ended, on whichever path, is_installing
\* is False, the last callback the run scheduled is the one that re-enables
\* the install button, and once the main loop has run it the button is
\* sensitive: the installer can be started again.
C25_FinishedRunLeavesInstallerStartable ==
    RunOver =>
        /\ ~is_installing
        /\ ButtonStates # <<>>
        /\ ~Last(ButtonStates).installing
        /\ Last(emitted) = SetInstallingCb(FALSE)
        /\ idle = <<>> => install_button

\* Witness of C25: a run of HxA.py has returned early on a failed step and
\* the install button is sensitive again.
C25_Witness ==
    /\ RunOver
    /\ Fatal(variant)
    /\ Last(results) = "fail"
    /\ idle = <<>>
    /\ install_button
    /\ ~is_installing

\* C26: an exception that leaves a step function aborts the run: the step
\* that raised is the last one started, the worker is on its way out of
\* run_installation, the error is logged and the error dialog scheduled, and
\* the run publishes neither "Installation complete!" nor the success dialog.
C26_ExceptionAbortsRun ==
    "raise" \in Range(results) =>
        /\ Last(results) = "raise"
        /\ Len(StartedSteps) = Len(results)
        /\ wpc \in {"finally", "done"}
        /\ LogCb("installation_error", 0, TRUE) \in Range(emitted)
        /\ ErrorCb(0) \in Range(emitted)
        /\ ~CompletePublished

\* Witness of C26: the second step raised after the first had succeeded; the
\* run has ended before the last step and the error dialog was shown.
C26_Witness ==
    /\ RunOver
    /\ Len(results) = 2
    /\ results[1] = "ok"
    /\ results[2] = "raise"
    /\ NumSteps > 2
    /\ ErrorCb(0) \in Range(dialogs)
    /\ DialogCb("_show_success_dialog") \notin Range(dialogs)

\* C28: in a run whose steps all return, the last progress snapshot the
\* worker publishes, and the one the progress bar shows when the main loop
\* has caught up, is (N + 2, N + 2) for the N steps of the list, whenever
\* _update_progress_ui runs.
C28_LastSnapshotIsTotalPlusTwo ==
    (RunOver /\ CompletePublished) =>
        /\ Frac(Last(published)) = <<NumSteps + 2, NumSteps + 2>>
        /\ idle = <<>> => progress_bar = <<NumSteps + 2, NumSteps + 2>>

\* start_installation has run without starting a run: the user declined the
\* confirmation dialog.  (With is_installing set the handler returns before
\* its first statement, which is no step at all.)
StartDeclined == start_installation /\ runs' = runs

\* C31: a start_installation that starts no run leaves the installer as it
\* was: no worker thread, and is_installing, the progress state and the log
\* contents unchanged.
C31_DeclinedStartChangesNothing ==
    [][StartDeclined =>
          /\ wpc' = wpc
          /\ main_thread' = main_thread
          /\ is_installing' = is_installing
          /\ <<total_steps, current_step, progress_bar, status_label>>' =
                 <<total_steps, current_step, progress_bar, status_label>>
          /\ log_buffer' = log_buffer]_vars

(***************************************************************************)
(* Properties of the command runner.                                       *)
(***************************************************************************)
\* The grace a runner may take beyond the timeout: one poll interval.
GracePeriod == PollInterval

\* The method is between starting the process and returning.
InCommand == rpc \notin {"entry", "returned"}

TimedOut == \E k \in 1..Len(rlog) : rlog[k].what = "timed_out"

\* C6: a command whose process is still running resolves within the timeout
\* plus the grace period: no call of run_user_command or run_polkit_command
\* is still waiting for a running process after that, and a call that saw the
\* timeout elapse returns False.
C6_TimeoutAlwaysResolves ==
    /\ (InCommand /\ proc = "running") => now - start_time <= Timeout + GracePeriod
    /\ TimedOut => rresult = "False"

\* The part of C6 that install.py keeps: its polling loop gives up on a
\* running process one poll interval after the timeout at the latest.
InstallTimeoutResolves ==
    variant = "install" =>
        /\ (InCommand /\ proc = "running") => now - start_time <= Timeout + GracePeriod
        /\ TimedOut => rresult = "False"

\* C7: once the child process has exited, the runner of install.py returns
\* within one poll interval, whoever still holds the output pipes.
C7_ReturnsSoonAfterChildExit ==
    (variant = "install" /\ InCommand /\ proc = "exited") =>
        now - exit_time <= PollInterval

\* C8: when the runner returns from a command that timed out, the process of
\* the command is no longer running.
C8_TimedOutProcessIsGone ==
    (rpc = "returned" /\ TimedOut) => proc # "running"

\* The lines of the command in the log, in log order: <<stream, n>> for
\* every line of every log entry.
RECURSIVE LoggedLines(_)
LoggedLines(entries) ==
    IF entries = <<>> THEN <<>>
    ELSE Head(entries).lines \o LoggedLines(Tail(entries))

\* The method has returned from a command whose process ran to its exit.
RanToExit == rpc = "returned" /\ proc = "exited" /\ ~TimedOut

\* C16: every line the command wrote is in the log exactly once when the
\* runner of install.py returns, and the lines of one stream are in the log
\* in the order the command wrote them.
C16_EveryLineLoggedOnceInOrder ==
    LET logged == LoggedLines(rlog) IN
      variant = "install" =>
        /\ \A j, k \in 1..Len(logged) :
             /\ (j # k) => logged[j] # logged[k]
             /\ (j < k /\ logged[j][1] = logged[k][1]) => logged[j][2] < logged[k][2]
        /\ RanToExit =>
             \A n \in 1..nwritten : \E k \in 1..Len(logged) : logged[k][2] = n

\* The part of C16 the code keeps: no line is logged twice, and the lines of
\* a stream keep their order.
LinesLoggedAtMostOnceInOrder ==
    LET logged == LoggedLines(rlog) IN
      \A j, k \in 1..Len(logged) :
        /\ (j # k) => logged[j] # logged[k]
        /\ (j < k /\ logged[j][1] = logged[k][1]) => logged[j][2] < logged[k][2]

\* subprocess.Popen (subprocess.run in HxA.py) raised: the method has
\* returned and there was never a process.
SpawnFailed == rpc = "returned" /\ proc = "none"

ErrorEntries == {k \in 1..Len(rlog) : rlog[k].is_error}

\* C19: when the spawn of the command raises, the runner returns False at
\* once: no time has passed, the polling loop was not entered (no process
\* exists outside the entry and the return of the method), and the log holds
\* the announcement of the command and one error entry, "Command failed".
C19_SpawnFailureReturnsAtOnce ==
    /\ proc = "none" => rpc \in {"entry", "returned"}
    /\ SpawnFailed =>
         /\ rresult = "False"
         /\ now = 0
         /\ Cardinality(ErrorEntries) = 1
         /\ rlog = <<RLog("running", <<>>, FALSE), RLog("command_failed", <<>>, TRUE)>>

\* Witness of C19: a call whose spawn raised has returned False.
C19_Witness ==
    /\ SpawnFailed
    /\ rresult = "False"
    /\ Last(rlog).what = "command_failed"

\* The method ended in its outer except branch.
CommandFailedLogged == \E k \in 1..Len(rlog) : rlog[k].what = "command_failed"

\* C20: a pipe.read() that raises does not end the command: the loop goes
\* on, the read error leaves no error entry, and when the method returns its
\* result is that of the timeout or of the exit status, as without the error.
C20_ReadErrorDoesNotAbort ==
    read_failed =>
        /\ rpc \in {"sleep", "check", "poll", "read", "communicate", "returned"}
        /\ CommandFailedLogged => (term = "denied" /\ now - start_time > Timeout)
        /\ rpc = "returned" =>
             \/ now - start_time > Timeout /\ rresult = "False"
             \/ /\ proc = "exited"
                /\ ~TimedOut
                /\ rresult = (IF returncode = 0 THEN "True" ELSE "False")

\* Witness of C20: a read of the loop raised and the command went on to
\* exit with status 0 and to return True.
C20_Witness ==
    /\ read_failed
    /\ rpc = "returned"
    /\ returncode = 0
    /\ rresult = "True"

\* The child exited with status 0 strictly before the timeout elapsed.
ExitedInTime ==
    proc = "exited" /\ returncode = 0 /\ exit_time - start_time < Timeout

\* C27: a command whose process exits with status 0 strictly before the
\* timeout elapses returns True, and a timeout is reported only for a
\* process that was still running when the timeout elapsed, wherever the
\* sleep of the polling loop falls.
C27_ExitBeforeTimeoutReturnsTrue ==
    /\ (rpc = "returned" /\ ExitedInTime) => rresult = "True"
    /\ TimedOut => ~(proc = "exited" /\ exit_time - start_time < Timeout)

(***************************************************************************)
(* Properties of the steps with fallback strategies.                       *)
(***************************************************************************)
\* Positions of the commands in the trace, and of those of unit u.
CmdsAt == {k \in 1..Len(ftrace) : ftrace[k].ev = "cmd"}

CmdsOf(u) == {k \in CmdsAt : ftrace[k].unit = u}

Desc(k) == <<ftrace[k].what, ftrace[k].arg>>

\* The units that have alternate strategies, and how many each has: the
\* binary download for the clone of yay, the sudo build for the pkexec
\* build, clone-and-copy for the oh-my-zsh script, and for a batch the
\* installation of each of its packages alone.
FallbackUnits ==
    {Unit("get_yay"), Unit("build"), Unit("omz")} \cup
    {BatchUnit(b) : b \in 1..NumBatches}

Alternates(u) ==
    IF u[1] = "batch" THEN Cardinality(Batch(u[2])) ELSE 1

StrategyFailed(u, n) ==
    \E k \in CmdsOf(u) : ftrace[k].strategy = n /\ ~ftrace[k].ok

\* The primary and every alternate of unit u were tried and failed.
Exhausted(u) == \A n \in 0..Alternates(u) : StrategyFailed(u, n)

\* Each strategy of unit u was attempted, no command was run twice, and the
\* strategies were attempted in their declared order.
AttemptedOnceInOrder(u) ==
    /\ {ftrace[k].strategy : k \in CmdsOf(u)} = 0..Alternates(u)
    /\ \A j, k \in CmdsOf(u) :
         /\ j < k => ftrace[j].strategy <= ftrace[k].strategy
         /\ j # k => Desc(j) # Desc(k)

\* C9: a unit whose N alternates all failed after its primary was attempted
\* exactly N + 1 times, once per strategy in declared order, and the step
\* function returned False.
C9_ExhaustedFallbackFails ==
    fpc = "done" =>
        \A u \in FallbackUnits :
            Exhausted(u) => (AttemptedOnceInOrder(u) /\ fresult = "False")

\* The part of C9 the code keeps: the attempts are N + 1 and in order for
\* every unit, and install_yay and install_oh_my_zsh return False.
ExhaustedFallbackAttempts ==
    fpc = "done" =>
        \A u \in FallbackUnits :
            Exhausted(u) =>
                /\ AttemptedOnceInOrder(u)
                /\ u[1] # "batch" => fresult = "False"

\* The install commands of install_packages: batch commands (strategy 0 of a
\* batch) and retries of one package (strategy > 0).
InstallCmds == {k \in CmdsAt : ftrace[k].unit[1] = "batch"}

IsRetry(k) == k \in InstallCmds /\ ftrace[k].strategy > 0

\* The packages command k installs.
Covers(k) ==
    IF IsRetry(k) THEN {ftrace[k].arg} ELSE Batch(ftrace[k].unit[2])

\* The batch command that retry k follows: the failed command of its batch.
OriginalOf(k) ==
    {j \in InstallCmds : j < k /\ ~IsRetry(j) /\ ftrace[j].unit = ftrace[k].unit}

\* C10: in install_packages every package is attempted at most twice, once
\* in its batch and once alone after that batch failed; there are at most
\* batches + packages install commands; every retry comes after a log entry
\* that announces it and has a description the batch command did not have.
C10_RetriesBoundedAndDistinguishable ==
    /\ \A pkg \in 1..NumPackages :
         /\ Cardinality({k \in InstallCmds : pkg \in Covers(k)}) <= 2
         /\ Cardinality({k \in InstallCmds : pkg \in Covers(k) /\ IsRetry(k)}) <= 1
         /\ Cardinality({k \in InstallCmds : pkg \in Covers(k) /\ ~IsRetry(k)}) <= 1
    /\ Cardinality(InstallCmds) <= NumBatches + NumPackages
    /\ \A k \in InstallCmds :
         IsRetry(k) =>
             /\ ftrace[k].arg \in Batch(ftrace[k].unit[2])
             /\ \E j \in OriginalOf(k) :
                  /\ ~ftrace[j].ok
                  /\ Desc(j) # Desc(k)
                  /\ \E m \in (j + 1)..(k - 1) :
                       ftrace[m] = FLog("trying_alternative", ftrace[k].unit[2], FALSE)
             /\ \A j \in InstallCmds : j # k => Desc(j) # Desc(k)

\* Witness of C10: install_packages has returned after every batch failed and
\* every package was retried alone.
C10_Witness ==
    /\ funit = "install_packages"
    /\ fpc = "done"
    /\ Cardinality(InstallCmds) = NumBatches + NumPackages
    /\ \A pkg \in 1..NumPackages :
         \E k \in InstallCmds : IsRetry(k) /\ ftrace[k].arg = pkg

\* The commands of the step whose authentication the user failed or dismissed.
AuthDenied == {k \in CmdsAt : ftrace[k].denied}

\* C11: a privileged command whose authentication was denied is not retried:
\* the step function runs no command after it, neither the same command nor
\* a fallback for the same work.
C11_AuthDeniedNeverRetried ==
    \A k \in AuthDenied : \A j \in CmdsAt : j <= k

\* C29: install_yay returns True only when yay is installed as it returns,
\* that is when check_yay_installed would report it, on every path.
C29_YayInstalledWhenTrue ==
    (funit = "install_yay" /\ fresult = "True") => yay

\* The batch commands of install_packages, in the order they were run.
BatchCmds ==
    SelectSeq(ftrace, LAMBDA e : e.ev = "cmd" /\ e.unit[1] = "batch" /\ e.strategy = 0)

\* The database update was run and failed.
UpdateFailed == \E k \in CmdsOf(Unit("update")) : ~ftrace[k].ok

\* C30: without yay install_packages runs no command and returns False.
\* With yay the k-th batch command is that of batch k, so the batches are
\* attempted in order and once each; all of them have been attempted when
\* the step returns, which it does with True, also after a failed database
\* update; and a package is retried alone only after the command of its
\* batch failed.
C30_BatchesOnceInOrderRetriesOnFailure ==
    funit = "install_packages" =>
        /\ ~yay => (CmdsAt = {} /\ (fpc = "done" => fresult = "False"))
        /\ yay =>
              /\ \A k \in 1..Len(BatchCmds) : BatchCmds[k].arg = k
              /\ fpc = "done" => (Len(BatchCmds) = NumBatches /\ fresult = "True")
              /\ \A k \in InstallCmds :
                    IsRetry(k) =>
                        /\ ftrace[k].arg \in Batch(ftrace[k].unit[2])
                        /\ \E j \in OriginalOf(k) : ~ftrace[j].ok
              /\ \A j \in InstallCmds :
                    (~IsRetry(j) /\ ftrace[j].ok) =>
                        \A k \in InstallCmds : IsRetry(k) => ftrace[k].unit # ftrace[j].unit

\* Witness of C30: the database update failed, the first batch failed and
\* its packages were retried, the last batch succeeded, and the step
\* returned True.
C30_Witness ==
    /\ funit = "install_packages"
    /\ fpc = "done"
    /\ fresult = "True"
    /\ UpdateFailed
    /\ Len(BatchCmds) = NumBatches
    /\ ~BatchCmds[1].ok
    /\ BatchCmds[NumBatches].ok
    /\ \A pkg \in Batch(1) : \E k \in InstallCmds : IsRetry(k) /\ ftrace[k].arg = pkg

(***************************************************************************)
(* Properties of the window and its threads.                               *)
(***************************************************************************)
\* A final status Cancelled has been published for the user.
CancelledSurfaced ==
    \/ status_label = "Cancelled"
    \/ \E c \in Range(emitted) :
          c.cb = "_update_progress_ui" /\ c.message = "Cancelled"

\* Number of step functions the scheduled worker has entered.
StepsEntered == Len(results) + (IF StepInFlight THEN 1 ELSE 0)

\* C12: when the user asks to stop while step k is in flight, the run ends
\* with the final status Cancelled and no step after k is started.
C12_CancelYieldsCancelled ==
    (alive = "exited" /\ quit_at > 0 /\ runs = 1) =>
        /\ CancelledSurfaced
        /\ StepsEntered <= quit_at

\* C13: there are never two worker threads executing run_installation at
\* the same time.
C13_AtMostOneWorker ==
    ~(Executing(wpc) /\ Executing(parked.wpc))

(***************************************************************************)
(* Properties of the update manager.                                       *)
(***************************************************************************)
\* C23: widgets and buffers are mutated by the main thread only; a worker
\* thread reaches them through GLib.idle_add callbacks.
C23_WidgetsMutatedOnMainThreadOnly ==
    \A m \in um_touched : m[2] = "main"

(***************************************************************************)
(* Properties of the prayer-time script.                                   *)
(***************************************************************************)
\* The online lookup failed: the request for today's timings, or the one for
\* tomorrow's when no prayer of today is left, brought no well-formed answer.
OnlineLookupFailed ==
    \/ today_response # "ok"
    \/ FirstAfter(now_minutes, timings) = 0 /\ response_tomorrow # "ok"

\* C24: whenever the online lookup fails, get_next_prayer_with_fallback
\* returns what offline_prayer_calculation returns.
C24_FallbackOnLookupFailure ==
    (spc = "returned" /\ OnlineLookupFailed) =>
        sresult = offline_prayer_calculation(now_minutes)


(***************************************************************************)
(* Properties of main().                                                   *)
(***************************************************************************)
\* main was started as root, or without ~/dots.
Refused == euid = 0 \/ dots_missing

\* C32: started as root or without ~/dots, main never constructs the
\* installer or enters its main loop, and when the process has exited its
\* status is 1, also after it created an empty ~/dots at the user's wish.
C32_RefusedStartExitsWithOne ==
    Refused =>
        /\ ~ui_created
        /\ mpc \notin {"app", "ui"}
        /\ mpc = "exited" => exit_status = 1

\* Witness of C32: the user agreed, install.py created ~/dots, and the
\* process has exited with status 1 without the installer.
C32_Witness ==
    /\ variant = "install"
    /\ euid # 0
    /\ dots_missing
    /\ dots
    /\ mpc = "exited"
    /\ exit_status = 1
    /\ ~ui_created

(***************************************************************************)
(* Properties of update checks.                                            *)
(***************************************************************************)
\* finish_update_check has run for check c.
CheckDone(c) == c <= Len(um_checks) /\ um_checks[c] = "done"

\* C33: every update check started by check_updates eventually reaches
\* finish_update_check, whichever of the flatpak, pacman and AUR checks
\* succeeds or raises.
C33_EveryCheckReachesFinish ==
    \A c \in 1..MaxChecks : (c <= Len(um_checks)) ~> CheckDone(c)

\* The run_updates threads that have not reached their end.
ActiveRuns == {w \in 1..Len(um_runs) : um_runs[w] # "finished"}

\* C34: at most one run_updates thread is active at a time, and while one is
\* active the Update All and Update Selected buttons are insensitive.
C34_OneUpdateRunAtATime ==
    /\ Cardinality(ActiveRuns) <= 1
    /\ ActiveRuns # {} => ~um_buttons

====
